---- MODULE Spec2Model ----
(***************************************************************************)
(* Model of the kiali graph core: the node identity scheme (graph.Id,      *)
(* graph.NewNode), the options resolver (options.NewOptions) and the       *)
(* cytoscape serializer (cytoscape.NewConfig).                             *)
(*                                                                         *)
(* Go strings are modelled as sequences of one-character strings, so that  *)
(* fmt.Sprintf, strings.Split, strings.Contains, strings.ToLower and the   *)
(* byte-wise string comparison are computed as the Go code computes them.  *)
(***************************************************************************)
EXTENDS Integers, Sequences, FiniteSets, TLC

VARIABLES
    graphType,   \* the graph type of the request under construction
    built,       \* the NewNode calls made so far: <<[args, id, node]>>
    env,         \* what the collaborators answer: the namespaces, the clock
    resolved,    \* the NewOptions calls made so far: <<[req, options]>>
    groupBy,     \* the group-by mode of the request under construction
    trafficMap,  \* the TrafficMap of the request: node ID -> pointer to Node
    heap,        \* the Nodes allocated: pointer -> Node (a pointer is named
                 \* by the ID the node was made with)
    docs,        \* the documents NewConfig has returned for the map
    workers      \* the requests served concurrently: worker -> its request,
                 \* its position, its Options, its TrafficMap, its document

idVars == <<graphType, built>>

optVars == <<env, resolved>>

cfgVars == <<groupBy, trafficMap, heap, docs>>

conVars == <<workers>>

vars == <<graphType, built, env, resolved, groupBy, trafficMap, heap, docs, workers>>

----------------------------------------------------------------------------
(* Go strings *)

\* the empty string ""
Empty == <<>>

UpperCase == <<"A", "B", "C", "D", "E", "F", "G", "H", "I", "J", "K", "L", "M", "N", "O", "P", "Q", "R", "S", "T", "U", "V", "W", "X", "Y", "Z">>
LowerCase == <<"a", "b", "c", "d", "e", "f", "g", "h", "i", "j", "k", "l", "m", "n", "o", "p", "q", "r", "s", "t", "u", "v", "w", "x", "y", "z">>

IndexOf(c, s) == CHOOSE i \in 1..Len(s) : s[i] = c

InStr(c, s) == \E i \in 1..Len(s) : s[i] = c

\* byte values of the characters that occur in the model (Go compares
\* strings byte-wise)
CharCodes ==
    [c \in {UpperCase[i] : i \in 1..26} |-> 64 + IndexOf(c, UpperCase)]
    @@ [c \in {LowerCase[i] : i \in 1..26} |-> 96 + IndexOf(c, LowerCase)]
    @@ [c \in {"0", "1", "2", "3", "4", "5", "6", "7", "8", "9"} |->
           47 + IndexOf(c, <<"0", "1", "2", "3", "4", "5", "6", "7", "8", "9">>)]
    @@ ("," :> 44) @@ ("-" :> 45) @@ ("." :> 46) @@ ("_" :> 95)

CharCode(c) == CharCodes[c]

\* Go's s < t on strings: lexicographic on bytes, a proper prefix is smaller
RECURSIVE StrLess(_, _)
StrLess(s, t) ==
    IF t = <<>> THEN FALSE
    ELSE IF s = <<>> THEN TRUE
    ELSE IF Head(s) # Head(t) THEN CharCode(Head(s)) < CharCode(Head(t))
    ELSE StrLess(Tail(s), Tail(t))


\* strings.ToLower
ToLowerChar(c) == IF InStr(c, UpperCase) THEN LowerCase[IndexOf(c, UpperCase)] ELSE c

ToLower(s) == [i \in 1..Len(s) |-> ToLowerChar(s[i])]

\* strings.Contains
Contains(s, substr) ==
    \E i \in 0..(Len(s) - Len(substr)) : SubSeq(s, i + 1, i + Len(substr)) = substr

\* strings.Split(s, sep) for a one-character separator: the parts between
\* the separators, one part (s itself) when there is none
RECURSIVE Split(_, _)
Split(s, sep) ==
    IF ~InStr(sep, s) THEN <<s>>
    ELSE LET i == CHOOSE j \in 1..Len(s) : s[j] = sep /\ \A k \in 1..(j - 1) : s[k] # sep
         IN  <<SubSeq(s, 1, i - 1)>> \o Split(SubSeq(s, i + 1, Len(s)), sep)

----------------------------------------------------------------------------
(* package graph: constants *)

GraphTypeApp == <<"a", "p", "p">>
GraphTypeService == <<"s", "e", "r", "v", "i", "c", "e">>
GraphTypeVersionedApp == <<"v", "e", "r", "s", "i", "o", "n", "e", "d", "A", "p", "p">>
GraphTypeWorkload == <<"w", "o", "r", "k", "l", "o", "a", "d">>
NodeTypeApp == <<"a", "p", "p">>
NodeTypeService == <<"s", "e", "r", "v", "i", "c", "e">>
NodeTypeUnknown == <<"u", "n", "k", "n", "o", "w", "n">>
NodeTypeWorkload == <<"w", "o", "r", "k", "l", "o", "a", "d">>
UnknownApp == <<"u", "n", "k", "n", "o", "w", "n">>
UnknownNamespace == <<"u", "n", "k", "n", "o", "w", "n">>
UnknownService == <<"u", "n", "k", "n", "o", "w", "n">>
UnknownVersion == <<"u", "n", "k", "n", "o", "w", "n">>
UnknownWorkload == <<"u", "n", "k", "n", "o", "w", "n">>

\* the sentinel "unknown" of every field
Unknown == <<"u", "n", "k", "n", "o", "w", "n">>

\* a Go panic: the call returns nothing
Panic == [panic |-> TRUE]

\* the outcome of a call that may panic
Panicked(r) == r.panic

----------------------------------------------------------------------------
(* graph.Id *)

IdUnknownSource == <<"u", "n", "k", "n", "o", "w", "n", "_", "s", "o", "u", "r", "c", "e">>

\* fmt.Sprintf("svc_%s_unknown", namespace)
IdSvcUnknown(namespace) == <<"s", "v", "c", "_">> \o namespace \o <<"_", "u", "n", "k", "n", "o", "w", "n">>

\* fmt.Sprintf("svc_%v_%v", namespace, service)
IdSvc(namespace, service) == <<"s", "v", "c", "_">> \o namespace \o <<"_">> \o service

\* fmt.Sprintf("wl_%v_%v", namespace, workload)
IdWl(namespace, workload) == <<"w", "l", "_">> \o namespace \o <<"_">> \o workload

\* fmt.Sprintf("vapp_%v_%v", namespace, workload)
IdVapp(namespace, workload) == <<"v", "a", "p", "p", "_">> \o namespace \o <<"_">> \o workload

\* fmt.Sprintf("app_%v_%v", namespace, app)
IdApp(namespace, app) == <<"a", "p", "p", "_">> \o namespace \o <<"_">> \o app

IdResult(id, nodeType) == [panic |-> FALSE, id |-> id, nodeType |-> nodeType]

WorkloadOk(workload) == workload # Empty /\ workload # UnknownWorkload
AppOk(app) == app # Empty /\ app # UnknownApp
ServiceOk(service) == service # Empty /\ service # UnknownService

\* mutant: the service wins over the workload in a workload graph
IdWorkloadGraphServiceFirst(namespace, workload, service) ==
    IF ~WorkloadOk(workload) /\ ~ServiceOk(service) THEN Panic
    ELSE IF ServiceOk(service) THEN IdResult(IdSvc(namespace, service), NodeTypeService)
    ELSE IdResult(IdWl(namespace, workload), NodeTypeWorkload)

\* Id, graph types workload and service (graph.go 145-154)
IdWorkloadGraph(namespace, workload, service) ==
    IF ~WorkloadOk(workload) /\ ~ServiceOk(service) THEN Panic
    ELSE IF ~WorkloadOk(workload) THEN IdResult(IdSvc(namespace, service), NodeTypeService)
    ELSE IdResult(IdWl(namespace, workload), NodeTypeWorkload)

\* mutant: a versionedApp graph keys the app node by the app label
IdAppGraphByLabel(namespace, workload, app, service, gt) ==
    IF AppOk(app) THEN IdResult(IdApp(namespace, app), NodeTypeApp)
    ELSE IF WorkloadOk(workload) THEN IdResult(IdWl(namespace, workload), NodeTypeWorkload)
    ELSE IdResult(IdSvc(namespace, service), NodeTypeService)

\* Id, the other graph types (graph.go 156-172)
IdAppGraph(namespace, workload, app, service, gt) ==
    IF AppOk(app)
    THEN IF gt = GraphTypeVersionedApp
         THEN IdResult(IdVapp(namespace, workload), NodeTypeApp)
         ELSE IdResult(IdApp(namespace, app), NodeTypeApp)
    ELSE IF WorkloadOk(workload) THEN IdResult(IdWl(namespace, workload), NodeTypeWorkload)
    ELSE IdResult(IdSvc(namespace, service), NodeTypeService)

\* mutant: the check that nothing resolves is skipped
IdNoCheck(namespace, workload, app, version, service, gt) ==
    IF UnknownNamespace = namespace /\ UnknownWorkload = workload /\ UnknownApp = app /\ Empty = service
    THEN IdResult(IdUnknownSource, NodeTypeUnknown)
    ELSE IF UnknownWorkload = workload /\ UnknownApp = app /\ UnknownService = service
    THEN IdResult(IdSvcUnknown(namespace), NodeTypeService)
    ELSE IF gt = GraphTypeWorkload \/ gt = GraphTypeService
    THEN IdWorkloadGraph(namespace, workload, service)
    ELSE IdAppGraph(namespace, workload, app, service, gt)

\* mutant: the unknown-source rule is tried after the check that something
\* resolves
IdSourceRuleLate(namespace, workload, app, version, service, gt) ==
    IF UnknownWorkload = workload /\ UnknownApp = app /\ UnknownService = service
    THEN IdResult(IdSvcUnknown(namespace), NodeTypeService)
    ELSE IF ~WorkloadOk(workload) /\ ~AppOk(app) /\ ~ServiceOk(service)
    THEN Panic
    ELSE IF UnknownNamespace = namespace /\ UnknownWorkload = workload /\ UnknownApp = app /\ Empty = service
    THEN IdResult(IdUnknownSource, NodeTypeUnknown)
    ELSE IF gt = GraphTypeWorkload \/ gt = GraphTypeService
    THEN IdWorkloadGraph(namespace, workload, service)
    ELSE IdAppGraph(namespace, workload, app, service, gt)

\* mutant: there is no rule for the unknown service of a namespace
IdNoServiceRule(namespace, workload, app, version, service, gt) ==
    IF UnknownNamespace = namespace /\ UnknownWorkload = workload /\ UnknownApp = app /\ Empty = service
    THEN IdResult(IdUnknownSource, NodeTypeUnknown)
    ELSE IF ~WorkloadOk(workload) /\ ~AppOk(app) /\ ~ServiceOk(service)
    THEN Panic
    ELSE IF gt = GraphTypeWorkload \/ gt = GraphTypeService
    THEN IdWorkloadGraph(namespace, workload, service)
    ELSE IdAppGraph(namespace, workload, app, service, gt)

Id(namespace, workload, app, version, service, gt) ==
    IF UnknownNamespace = namespace /\ UnknownWorkload = workload /\ UnknownApp = app /\ Empty = service
    THEN IdResult(IdUnknownSource, NodeTypeUnknown)
    ELSE IF UnknownWorkload = workload /\ UnknownApp = app /\ UnknownService = service
    THEN IdResult(IdSvcUnknown(namespace), NodeTypeService)
    ELSE IF ~WorkloadOk(workload) /\ ~AppOk(app) /\ ~ServiceOk(service)
    THEN Panic
    ELSE IF gt = GraphTypeWorkload \/ gt = GraphTypeService
    THEN IdWorkloadGraph(namespace, workload, service)
    ELSE IdAppGraph(namespace, workload, app, service, gt)

----------------------------------------------------------------------------
(* graph.NewNodeExplicit, graph.NewNode *)

\* make(map[string]interface{})
EmptyMetadata == [k \in {} |-> FALSE]

Node(id, nodeType, namespace, workload, app, version, service) ==
    [panic |-> FALSE, ID |-> id, NodeType |-> nodeType, Namespace |-> namespace,
     Workload |-> workload, App |-> app, Version |-> version, Service |-> service,
     Edges |-> <<>>, Metadata |-> EmptyMetadata]

\* mutant: no field is trimmed
NewNodeExplicitUntrimmed(id, namespace, workload, app, version, service, nodeType, gt) ==
    Node(id, nodeType, namespace, workload, app, version, service)

\* mutant: an app node loses workload and version in every graph type
NewNodeExplicitAppTrimmed(id, namespace, workload, app, version, service, nodeType, gt) ==
    IF nodeType = NodeTypeWorkload
    THEN Node(id, nodeType, namespace, workload,
              IF app = UnknownApp THEN Empty ELSE app,
              IF version = UnknownVersion THEN Empty ELSE version,
              Empty)
    ELSE IF nodeType = NodeTypeApp
    THEN Node(id, nodeType, namespace, Empty, app, Empty, Empty)
    ELSE IF nodeType = NodeTypeService
    THEN Node(id, nodeType, namespace, Empty, Empty, Empty, service)
    ELSE Node(id, nodeType, namespace, workload, app, version, service)

NewNodeExplicit(id, namespace, workload, app, version, service, nodeType, gt) ==
    IF nodeType = NodeTypeWorkload
    THEN Node(id, nodeType, namespace, workload,
              IF app = UnknownApp THEN Empty ELSE app,
              IF version = UnknownVersion THEN Empty ELSE version,
              Empty)
    ELSE IF nodeType = NodeTypeApp
    THEN IF gt # GraphTypeVersionedApp
         THEN Node(id, nodeType, namespace, Empty, app, Empty, Empty)
         ELSE Node(id, nodeType, namespace, workload, app, version, Empty)
    ELSE IF nodeType = NodeTypeService
    THEN Node(id, nodeType, namespace, Empty, Empty, Empty, service)
    ELSE Node(id, nodeType, namespace, workload, app, version, service)

NewNode(namespace, workload, app, version, service, gt) ==
    LET r == Id(namespace, workload, app, version, service, gt)
    IN  IF Panicked(r) THEN Panic
        ELSE NewNodeExplicit(r.id, namespace, workload, app, version, service, r.nodeType, gt)

----------------------------------------------------------------------------
(* package options: constants *)

AppenderAll == <<"_", "a", "l", "l", "_">>
GroupByVersion == <<"v", "e", "r", "s", "i", "o", "n">>
NamespaceAll == <<"a", "l", "l">>
NamespaceIstioSystem == <<"i", "s", "t", "i", "o", "-", "s", "y", "s", "t", "e", "m">>
\* "10m"; durations and instants are counted in minutes
defaultDuration == 10
defaultGraphType == GraphTypeWorkload
defaultGroupBy == GroupByVersion
defaultIncludeIstio == FALSE
defaultInjectServiceNodes == FALSE
defaultVendor == <<"c", "y", "t", "o", "s", "c", "a", "p", "e">>

\* the zero time.Time, January 1 of year 1, in minutes before the Unix epoch
ZeroTime == 0 - 1035593280

IsZero(t) == t = ZeroTime

\* time.Now(), and time.Now().Unix(): the clock of the request
Now == env.now

\* the names package appender gives its appenders
DeadNodeAppenderName == env.names.DeadNode
ResponseTimeAppenderName == env.names.ResponseTime
SecurityPolicyAppenderName == env.names.SecurityPolicy
UnusedNodeAppenderName == env.names.UnusedNode
IstioAppenderName == env.names.Istio
SidecarsCheckAppenderName == env.names.SidecarsCheck

\* appender.DefaultQuantile
DefaultQuantile == "DefaultQuantile"

----------------------------------------------------------------------------
(* options.resolveNamespaceDuration *)

\* mutant: the requested range is never clamped
resolveNamespaceDurationUnclamped(nsCreationTime, requestedRange, queryTime) ==
    requestedRange

resolveNamespaceDuration(nsCreationTime, requestedRange, queryTime) ==
    IF ~IsZero(nsCreationTime)
    THEN LET referenceTime == IF queryTime # 0 THEN queryTime ELSE Now
             nsLifetime == referenceTime - nsCreationTime
         IN  IF nsLifetime < requestedRange THEN nsLifetime ELSE requestedRange
    ELSE requestedRange

----------------------------------------------------------------------------
(* options.parseAppenders *)

\* url.Values.Get: "" for a parameter that is absent
Get(param) == IF param.present THEN param.value ELSE Empty

\* the appenders parameter selects an appender by its name or its alias
Selected(csl, name, alias) ==
    csl = AppenderAll \/ Contains(csl, name) \/ Contains(csl, alias)

DeadNodeAppender == [type |-> "DeadNodeAppender"]

ResponseTimeAppender(params, o) ==
    [type |-> "ResponseTimeAppender",
     Quantile |-> IF params.responseTimeQuantile.present /\ ~params.responseTimeQuantile.err
                  THEN params.responseTimeQuantile.val
                  ELSE DefaultQuantile,
     GraphType |-> o.GraphType,
     InjectServiceNodes |-> o.InjectServiceNodes,
     IncludeIstio |-> o.IncludeIstio,
     Namespaces |-> o.Namespaces,
     QueryTime |-> o.QueryTime]

SecurityPolicyAppender(o) ==
    [type |-> "SecurityPolicyAppender",
     GraphType |-> o.GraphType,
     IncludeIstio |-> o.IncludeIstio,
     Namespaces |-> o.Namespaces,
     QueryTime |-> o.QueryTime]

UnusedNodeAppender(o) ==
    [type |-> "UnusedNodeAppender",
     GraphType |-> o.GraphType,
     IsNodeGraph |-> (o.App # Empty \/ o.Workload # Empty \/ o.Service # Empty)]

IstioAppender == [type |-> "IstioAppender"]

SidecarsCheckAppender == [type |-> "SidecarsCheckAppender"]

\* the list of appenders as the parameter value csl selects them
AppendSelected(csl, params, o) ==
    (IF Selected(csl, DeadNodeAppenderName, <<"d", "e", "a", "d", "_", "n", "o", "d", "e">>)
     THEN <<DeadNodeAppender>> ELSE <<>>)
    \o (IF Selected(csl, ResponseTimeAppenderName, <<"r", "e", "s", "p", "o", "n", "s", "e", "_", "t", "i", "m", "e">>)
        THEN <<ResponseTimeAppender(params, o)>> ELSE <<>>)
    \o (IF Selected(csl, SecurityPolicyAppenderName, <<"s", "e", "c", "u", "r", "i", "t", "y", "_", "p", "o", "l", "i", "c", "y">>)
        THEN <<SecurityPolicyAppender(o)>> ELSE <<>>)
    \o (IF Selected(csl, UnusedNodeAppenderName, <<"u", "n", "u", "s", "e", "d", "_", "n", "o", "d", "e">>)
        THEN <<UnusedNodeAppender(o)>> ELSE <<>>)
    \o (IF Selected(csl, IstioAppenderName, <<"i", "s", "t", "i", "o">>)
        THEN <<IstioAppender>> ELSE <<>>)
    \o (IF Selected(csl, SidecarsCheckAppenderName, <<"s", "i", "d", "e", "c", "a", "r", "s", "_", "c", "h", "e", "c", "k">>)
        THEN <<SidecarsCheckAppender>> ELSE <<>>)

\* mutant: the appenders are appended in the order the parameter names them
parseAppendersInListOrder(params, o) ==
    LET csl == IF params.appenders.present THEN ToLower(Get(params.appenders)) ELSE AppenderAll
        parts == Split(csl, ",")
        RECURSIVE Each(_)
        Each(i) == IF i > Len(parts) THEN <<>>
                   ELSE AppendSelected(parts[i], params, o) \o Each(i + 1)
    IN  IF csl = AppenderAll THEN AppendSelected(csl, params, o) ELSE Each(1)

parseAppenders(params, o) ==
    LET csl == IF params.appenders.present THEN ToLower(Get(params.appenders)) ELSE AppenderAll
    IN  AppendSelected(csl, params, o)

----------------------------------------------------------------------------
(* options.NewOptions *)

\* getAccessibleNamespaces: the set of the namespaces and their creation
\* timestamps; a failing lookup panics in checkError
getAccessibleNamespaces ==
    IF env.lookupFails THEN Panic
    ELSE [panic |-> FALSE, namespaceMap |-> env.accessible, namespaceTimestamps |-> env.created]

Range(s) == {s[i] : i \in 1..Len(s)}

NamespaceInfo(name, timestamps, duration, queryTime) ==
    [Name |-> name,
     Duration |-> resolveNamespaceDuration(timestamps[name], duration, queryTime)]

\* mutant: an inaccessible namespace is left out of the map
resolveNamespacesDropping(r, acc, duration, queryTime) ==
    LET requestedNamespaces == r.namespaces
        requestedNamespace == r.namespace
        accessibleNamespaces == acc.namespaceMap
        fetchNamespaces ==
            \/ requestedNamespaces = NamespaceAll
            \/ requestedNamespaces = Empty /\ requestedNamespace = NamespaceAll
        info(n) == NamespaceInfo(n, acc.namespaceTimestamps, duration, queryTime)
        wanted == IF fetchNamespaces THEN accessibleNamespaces \ {NamespaceIstioSystem}
                  ELSE IF requestedNamespaces # Empty
                  THEN Range(Split(requestedNamespaces, ",")) \cap accessibleNamespaces
                  ELSE {requestedNamespace} \cap accessibleNamespaces
    IN  [panic |-> FALSE, namespaces |-> [n \in wanted |-> info(n)]]

\* mutant: the all-namespaces marker yields every accessible namespace
resolveNamespacesWithIstio(r, acc, duration, queryTime) ==
    LET requestedNamespaces == r.namespaces
        requestedNamespace == r.namespace
        accessibleNamespaces == acc.namespaceMap
        fetchNamespaces ==
            \/ requestedNamespaces = NamespaceAll
            \/ requestedNamespaces = Empty /\ requestedNamespace = NamespaceAll
        info(n) == NamespaceInfo(n, acc.namespaceTimestamps, duration, queryTime)
        namespacesList == Split(requestedNamespaces, ",")
    IN  IF fetchNamespaces
        THEN [panic |-> FALSE, namespaces |-> [n \in accessibleNamespaces |-> info(n)]]
        ELSE IF requestedNamespaces # Empty
        THEN IF \E i \in 1..Len(namespacesList) : namespacesList[i] \notin accessibleNamespaces
             THEN Panic
             ELSE [panic |-> FALSE, namespaces |-> [n \in Range(namespacesList) |-> info(n)]]
        ELSE IF requestedNamespace # Empty
        THEN IF requestedNamespace \notin accessibleNamespaces
             THEN Panic
             ELSE [panic |-> FALSE, namespaces |-> [n \in {requestedNamespace} |-> info(n)]]
        ELSE [panic |-> FALSE, namespaces |-> [n \in {} |-> info(n)]]

\* NewOptions, "Process namespaces options": the namespaces map, or the
\* panic of checkError at the first requested namespace that is not accessible
resolveNamespaces(r, acc, duration, queryTime) ==
    LET requestedNamespaces == r.namespaces
        requestedNamespace == r.namespace
        accessibleNamespaces == acc.namespaceMap
        fetchNamespaces ==
            \/ requestedNamespaces = NamespaceAll
            \/ requestedNamespaces = Empty /\ requestedNamespace = NamespaceAll
        info(n) == NamespaceInfo(n, acc.namespaceTimestamps, duration, queryTime)
        namespacesList == Split(requestedNamespaces, ",")
    IN  IF fetchNamespaces
        THEN [panic |-> FALSE,
              namespaces |-> [n \in accessibleNamespaces \ {NamespaceIstioSystem} |-> info(n)]]
        ELSE IF requestedNamespaces # Empty
        THEN IF \E i \in 1..Len(namespacesList) : namespacesList[i] \notin accessibleNamespaces
             THEN Panic
             ELSE [panic |-> FALSE, namespaces |-> [n \in Range(namespacesList) |-> info(n)]]
        ELSE IF requestedNamespace # Empty
        THEN IF requestedNamespace \notin accessibleNamespaces
             THEN Panic
             ELSE [panic |-> FALSE, namespaces |-> [n \in {requestedNamespace} |-> info(n)]]
        ELSE [panic |-> FALSE, namespaces |-> [n \in {} |-> info(n)]]

\* r: the path variables and the query parameters of the request; a
\* parameter a strconv or time parser reads is given by the parser's outcome
NewOptions(r) ==
    LET duration == IF r.duration.err THEN defaultDuration ELSE r.duration.val
        includeIstio == IF r.includeIstio.err THEN defaultIncludeIstio ELSE r.includeIstio.val
        injectParam == IF r.injectServiceNodes.err THEN defaultInjectServiceNodes
                       ELSE r.injectServiceNodes.val
        gt == IF r.graphType = Empty THEN defaultGraphType ELSE r.graphType
        groupByParam == IF r.groupBy = Empty THEN defaultGroupBy ELSE r.groupBy
        queryTime == IF r.queryTime.err THEN Now ELSE r.queryTime.val
        vendor == IF r.vendor = Empty THEN defaultVendor ELSE r.vendor
        acc == getAccessibleNamespaces
        ns == resolveNamespaces(r, acc, duration, queryTime)
        injectServiceNodes == IF gt = GraphTypeService THEN TRUE ELSE injectParam
        options == [panic |-> FALSE,
                    AccessibleNamespaces |-> acc.namespaceMap,
                    Appenders |-> <<>>,
                    Duration |-> duration,
                    IncludeIstio |-> includeIstio,
                    InjectServiceNodes |-> injectServiceNodes,
                    Namespaces |-> ns.namespaces,
                    QueryTime |-> queryTime,
                    Vendor |-> vendor,
                    App |-> r.app,
                    Service |-> r.service,
                    Version |-> r.version,
                    Workload |-> r.workload,
                    GraphType |-> gt,
                    GroupBy |-> groupByParam,
                    Timestamp |-> queryTime]
    IN  IF Panicked(acc) THEN Panic
        ELSE IF Panicked(ns) THEN Panic
        ELSE [options EXCEPT !.Appenders = parseAppenders(r, options)]

----------------------------------------------------------------------------
(* Options specifications: the collaborators' answers are fixed at the     *)
(* start, then one request is resolved                                     *)

\* the most names a namespaces parameter lists
MaxNamespaceList == 2
\* the most names an appenders parameter lists
MaxAppenderList == 2

RECURSIVE Join(_, _)
Join(parts, sep) ==
    IF Len(parts) = 1 THEN parts[1]
    ELSE parts[1] \o <<sep>> \o Join(Tail(parts), sep)

Lists(T, n) == UNION {[1..k -> T] : k \in 1..n}

\* a namespace created at T = 100, the clock at T + 20
CreationTimes == {ZeroTime, 100}
ClockTimes == {120}

\* the names of package appender are not part of the sources at hand: the
\* resolver is checked against a lower-case and a mixed-case spelling
AppenderNameSpellings ==
    {[DeadNode |-> <<"d", "e", "a", "d", "n", "o", "d", "e">>, ResponseTime |-> <<"r", "e", "s", "p", "o", "n", "s", "e", "t", "i", "m", "e">>,
      SecurityPolicy |-> <<"s", "e", "c", "u", "r", "i", "t", "y", "p", "o", "l", "i", "c", "y">>, UnusedNode |-> <<"u", "n", "u", "s", "e", "d", "n", "o", "d", "e">>,
      Istio |-> <<"i", "s", "t", "i", "o">>, SidecarsCheck |-> <<"s", "i", "d", "e", "c", "a", "r", "s", "c", "h", "e", "c", "k">>],
     [DeadNode |-> <<"d", "e", "a", "d", "N", "o", "d", "e">>, ResponseTime |-> <<"r", "e", "s", "p", "o", "n", "s", "e", "T", "i", "m", "e">>,
      SecurityPolicy |-> <<"s", "e", "c", "u", "r", "i", "t", "y", "P", "o", "l", "i", "c", "y">>, UnusedNode |-> <<"u", "n", "u", "s", "e", "d", "N", "o", "d", "e">>,
      Istio |-> <<"i", "s", "t", "i", "o">>, SidecarsCheck |-> <<"s", "i", "d", "e", "c", "a", "r", "s", "C", "h", "e", "c", "k">>]}

ClusterNamespaces == {<<"n", "1">>, <<"n", "2">>, NamespaceIstioSystem}

Envs(accessibleSets, spellings) ==
    {e \in [lookupFails : BOOLEAN, accessible : accessibleSets,
            created : UNION {[acc -> CreationTimes] : acc \in accessibleSets},
            now : ClockTimes, names : spellings] :
        /\ DOMAIN e.created = e.accessible
        /\ e.lookupFails => e.accessible = {}}

IdleEnv == [lookupFails |-> TRUE, accessible |-> {}, created |-> <<>>, now |-> 0,
            names |-> CHOOSE n \in AppenderNameSpellings : TRUE]

Parsed(values) == {[err |-> TRUE, val |-> 0]} \cup [err : {FALSE}, val : values]

NoParam == [present |-> FALSE, value |-> Empty]

NoQuantile == [present |-> FALSE, err |-> FALSE, val |-> 0]

\* the requests that exercise the namespace options
NamespaceTokens == {Empty, NamespaceAll, <<"n", "1">>, <<"n", "2">>, NamespaceIstioSystem}

OptRequests ==
    {[app |-> Empty, version |-> Empty, service |-> Empty, workload |-> Empty,
      namespace |-> pathNs, listed |-> l, namespaces |-> Join(l, ","),
      duration |-> d, queryTime |-> q,
      includeIstio |-> [err |-> TRUE, val |-> FALSE],
      injectServiceNodes |-> [err |-> TRUE, val |-> FALSE],
      graphType |-> Empty, groupBy |-> Empty, vendor |-> Empty,
      appenders |-> NoParam, named |-> <<>>, responseTimeQuantile |-> NoQuantile] :
        pathNs \in {Empty, NamespaceAll, <<"n", "1">>, NamespaceIstioSystem},
        l \in Lists(NamespaceTokens, MaxNamespaceList),
        d \in Parsed({5, 60}), q \in Parsed({0, 90, 110})}

\* the requests that exercise the appender selection
AppenderTokens ==
    {<<"d", "e", "a", "d", "_", "n", "o", "d", "e">>, <<"d", "e", "a", "d", "N", "o", "d", "e">>, <<"r", "e", "s", "p", "o", "n", "s", "e", "_", "t", "i", "m", "e">>, <<"r", "e", "s", "p", "o", "n", "s", "e", "t", "i", "m", "e">>, <<"s", "e", "c", "u", "r", "i", "t", "y", "_", "p", "o", "l", "i", "c", "y">>,
     <<"u", "n", "u", "s", "e", "d", "_", "n", "o", "d", "e">>, <<"i", "s", "t", "i", "o">>, <<"I", "S", "T", "I", "O">>, <<"S", "i", "d", "e", "c", "a", "r", "s", "_", "C", "h", "e", "c", "k">>, <<"_", "a", "l", "l", "_">>, <<"_", "A", "L", "L", "_">>, <<"x">>}

AppRequests ==
    {[app |-> a, version |-> Empty, service |-> Empty, workload |-> Empty,
      namespace |-> <<"n", "1">>, listed |-> <<Empty>>, namespaces |-> Empty,
      duration |-> [err |-> TRUE, val |-> 0], queryTime |-> [err |-> TRUE, val |-> 0],
      includeIstio |-> [err |-> FALSE, val |-> TRUE],
      injectServiceNodes |-> [err |-> TRUE, val |-> FALSE],
      graphType |-> gt, groupBy |-> Empty, vendor |-> Empty,
      appenders |-> p[1], named |-> p[2], responseTimeQuantile |-> rq] :
        a \in {Empty}, gt \in {Empty},
        p \in {<<NoParam, <<>>>>, <<[present |-> TRUE, value |-> Empty], <<>>>>}
              \cup {<<[present |-> TRUE, value |-> Join(l, ",")], l>> :
                       l \in Lists(AppenderTokens, MaxAppenderList)},
        rq \in {NoQuantile, [present |-> TRUE, err |-> FALSE, val |-> 50]}}

\* the parts of the state a specification leaves alone
IdIdle == graphType = GraphTypeWorkload /\ built = <<>>

OptIdle == env = IdleEnv /\ resolved = <<>>

CfgIdle == trafficMap = <<>> /\ heap = <<>> /\ groupBy = GroupByVersion /\ docs = <<>>

ConIdle == workers = <<>>

OptInit ==
    /\ env \in Envs(SUBSET ClusterNamespaces, {CHOOSE n \in AppenderNameSpellings : TRUE})
    /\ resolved = <<>>
    /\ IdIdle
    /\ CfgIdle
    /\ ConIdle

AppInit ==
    /\ env \in Envs({{<<"n", "1">>}}, AppenderNameSpellings)
    /\ resolved = <<>>
    /\ IdIdle
    /\ CfgIdle
    /\ ConIdle

\* a graph request arrives: options := NewOptions(r)
CallNewOptions(requests) ==
    /\ Len(resolved) < 1
    /\ \E r \in requests :
          resolved' = Append(resolved, [req |-> r, options |-> NewOptions(r)])
    /\ UNCHANGED <<env, idVars, cfgVars, conVars>>

OptNext == CallNewOptions(OptRequests)

AppNext == CallNewOptions(AppRequests)

SpecOptions == OptInit /\ [][OptNext]_vars

SpecAppenders == AppInit /\ [][AppNext]_vars

----------------------------------------------------------------------------
(* package cytoscape: nodeHash, edgeHash *)

\* md5.Sum is not computed: a hash is the tagged value that was hashed, so
\* that equal inputs give equal hashes and different inputs different ones
nodeHash(id) == [md5 |-> id]

\* the hash of fmt.Sprintf("%s.%s.%s", from, to, protocol)
edgeHash(from, to, protocol) == [md5 |-> <<from, to, protocol>>]

Reverse(s) == [i \in 1..Len(s) |-> s[Len(s) + 1 - i]]

\* Go's < on two hex digests: the order of the digests is unrelated to the
\* order of the hashed ids; it is modelled by comparing the ids backwards
HashLess(h, k) == StrLess(Reverse(h.md5), Reverse(k.md5))

----------------------------------------------------------------------------
(* fmt.Sprintf("%.2f", x): a float64 is counted in hundredths *)

Digit(d) == <<"0", "1", "2", "3", "4", "5", "6", "7", "8", "9">>[d + 1]

RECURSIVE Digits(_)
Digits(n) == IF n < 10 THEN <<Digit(n)>> ELSE Append(Digits(n \div 10), Digit(n % 10))

\* "%.2f" of h hundredths, h >= 0
Sprintf2f(h) == Digits(h \div 100) \o <<".", Digit((h % 100) \div 10), Digit(h % 10)>>

\* num / den * 100.0 in hundredths, rounded as "%.2f" rounds it
Percent(num, den) == (2 * num * 10000 + den) \div (2 * den)

----------------------------------------------------------------------------
(* cytoscape.addNodeTelemetry, getRate, addEdgeTelemetry *)

getRate(md, k) == IF k \in DOMAIN md THEN md[k] ELSE 0

\* a metadata value of type bool (false when the key is absent)
getBool(md, k) == IF k \in DOMAIN md THEN md[k] ELSE FALSE

\* mutant: every rate of a node is emitted when it is above zero itself
NodeTelemetryEachAlone(md) ==
    LET rate == getRate(md, "rate")
        rate3xx == getRate(md, "rate3xx")
        rate4xx == getRate(md, "rate4xx")
        rate5xx == getRate(md, "rate5xx")
        rateOut == getRate(md, "rateOut")
        tcpSent == getRate(md, "tcpSentRate")
        tcpSentOut == getRate(md, "tcpSentRateOut")
    IN  [Rate |-> IF rate > 0 THEN Sprintf2f(rate) ELSE Empty,
         Rate3xx |-> IF rate3xx > 0 THEN Sprintf2f(rate3xx) ELSE Empty,
         Rate4xx |-> IF rate4xx > 0 THEN Sprintf2f(rate4xx) ELSE Empty,
         Rate5xx |-> IF rate5xx > 0 THEN Sprintf2f(rate5xx) ELSE Empty,
         RateOut |-> IF rateOut > 0 THEN Sprintf2f(rateOut) ELSE Empty,
         RateTcpSent |-> IF tcpSent > 0 THEN Sprintf2f(tcpSent) ELSE Empty,
         RateTcpSentOut |-> IF tcpSentOut > 0 THEN Sprintf2f(tcpSentOut) ELSE Empty]

\* the fields addNodeTelemetry sets on a NodeData
NodeTelemetry(md) ==
    LET rate == getRate(md, "rate")
        rate3xx == getRate(md, "rate3xx")
        rate4xx == getRate(md, "rate4xx")
        rate5xx == getRate(md, "rate5xx")
        rateOut == getRate(md, "rateOut")
        tcpSent == getRate(md, "tcpSentRate")
        tcpSentOut == getRate(md, "tcpSentRateOut")
    IN  [Rate |-> IF rate > 0 THEN Sprintf2f(rate) ELSE Empty,
         Rate3xx |-> IF rate > 0 /\ rate3xx > 0 THEN Sprintf2f(rate3xx) ELSE Empty,
         Rate4xx |-> IF rate > 0 /\ rate4xx > 0 THEN Sprintf2f(rate4xx) ELSE Empty,
         Rate5xx |-> IF rate > 0 /\ rate5xx > 0 THEN Sprintf2f(rate5xx) ELSE Empty,
         RateOut |-> IF rateOut > 0 THEN Sprintf2f(rateOut) ELSE Empty,
         RateTcpSent |-> IF tcpSent > 0 THEN Sprintf2f(tcpSent) ELSE Empty,
         RateTcpSentOut |-> IF tcpSentOut > 0 THEN Sprintf2f(tcpSentOut) ELSE Empty]

\* mutant: percentErr counts the 5xx responses only
EdgeTelemetryErr5xx(e, source) ==
    LET md == e.Metadata
        rate == getRate(md, "rate")
        rate3xx == getRate(md, "rate3xx")
        rate4xx == getRate(md, "rate4xx")
        rate5xx == getRate(md, "rate5xx")
        rateErr == rate5xx
        rateOut == getRate(source.Metadata, "rateOut")
        tcpSentRate == getRate(md, "tcpSentRate")
    IN  [Rate |-> IF rate > 0 THEN Sprintf2f(rate) ELSE Empty,
         Rate3xx |-> IF rate > 0 /\ rate3xx > 0 THEN Sprintf2f(rate3xx) ELSE Empty,
         Rate4xx |-> IF rate > 0 /\ rate4xx > 0 THEN Sprintf2f(rate4xx) ELSE Empty,
         Rate5xx |-> IF rate > 0 /\ rate5xx > 0 THEN Sprintf2f(rate5xx) ELSE Empty,
         PercentErr |-> IF rate > 0 /\ rateErr > 0
                        THEN Sprintf2f(Percent(rateErr, rate)) ELSE Empty,
         ResponseTime |-> IF rate > 0 /\ "responseTime" \in DOMAIN md
                          THEN Sprintf2f(md["responseTime"]) ELSE Empty,
         PercentRate |-> IF rate > 0 /\ rateOut > 0 /\ rate < rateOut
                         THEN Sprintf2f(Percent(rate, rateOut)) ELSE Empty,
         IsUnused |-> IF rate > 0 THEN FALSE ELSE getBool(source.Metadata, "isUnused"),
         IsMTLS |-> getBool(md, "isMTLS"),
         TcpSentRate |-> IF tcpSentRate > 0 THEN Sprintf2f(tcpSentRate) ELSE Empty]

\* mutant: percentRate is emitted up to and including 100
EdgeTelemetryFullRate(e, source) ==
    LET md == e.Metadata
        rate == getRate(md, "rate")
        rate3xx == getRate(md, "rate3xx")
        rate4xx == getRate(md, "rate4xx")
        rate5xx == getRate(md, "rate5xx")
        rateErr == rate4xx + rate5xx
        rateOut == getRate(source.Metadata, "rateOut")
        tcpSentRate == getRate(md, "tcpSentRate")
    IN  [Rate |-> IF rate > 0 THEN Sprintf2f(rate) ELSE Empty,
         Rate3xx |-> IF rate > 0 /\ rate3xx > 0 THEN Sprintf2f(rate3xx) ELSE Empty,
         Rate4xx |-> IF rate > 0 /\ rate4xx > 0 THEN Sprintf2f(rate4xx) ELSE Empty,
         Rate5xx |-> IF rate > 0 /\ rate5xx > 0 THEN Sprintf2f(rate5xx) ELSE Empty,
         PercentErr |-> IF rate > 0 /\ rateErr > 0
                        THEN Sprintf2f(Percent(rateErr, rate)) ELSE Empty,
         ResponseTime |-> IF rate > 0 /\ "responseTime" \in DOMAIN md
                          THEN Sprintf2f(md["responseTime"]) ELSE Empty,
         PercentRate |-> IF rate > 0 /\ rateOut > 0 /\ rate <= rateOut
                         THEN Sprintf2f(Percent(rate, rateOut)) ELSE Empty,
         IsUnused |-> IF rate > 0 THEN FALSE ELSE getBool(source.Metadata, "isUnused"),
         IsMTLS |-> getBool(md, "isMTLS"),
         TcpSentRate |-> IF tcpSentRate > 0 THEN Sprintf2f(tcpSentRate) ELSE Empty]

\* the fields addEdgeTelemetry sets on an EdgeData; source is e.Source
EdgeTelemetry(e, source) ==
    LET md == e.Metadata
        rate == getRate(md, "rate")
        rate3xx == getRate(md, "rate3xx")
        rate4xx == getRate(md, "rate4xx")
        rate5xx == getRate(md, "rate5xx")
        rateErr == rate4xx + rate5xx
        rateOut == getRate(source.Metadata, "rateOut")
        tcpSentRate == getRate(md, "tcpSentRate")
    IN  [Rate |-> IF rate > 0 THEN Sprintf2f(rate) ELSE Empty,
         Rate3xx |-> IF rate > 0 /\ rate3xx > 0 THEN Sprintf2f(rate3xx) ELSE Empty,
         Rate4xx |-> IF rate > 0 /\ rate4xx > 0 THEN Sprintf2f(rate4xx) ELSE Empty,
         Rate5xx |-> IF rate > 0 /\ rate5xx > 0 THEN Sprintf2f(rate5xx) ELSE Empty,
         PercentErr |-> IF rate > 0 /\ rateErr > 0
                        THEN Sprintf2f(Percent(rateErr, rate)) ELSE Empty,
         ResponseTime |-> IF rate > 0 /\ "responseTime" \in DOMAIN md
                          THEN Sprintf2f(md["responseTime"]) ELSE Empty,
         \* rate / 0 is +Inf, which is not below 100
         PercentRate |-> IF rate > 0 /\ rateOut > 0 /\ rate < rateOut
                         THEN Sprintf2f(Percent(rate, rateOut)) ELSE Empty,
         IsUnused |-> IF rate > 0 THEN FALSE ELSE getBool(source.Metadata, "isUnused"),
         IsMTLS |-> getBool(md, "isMTLS"),
         TcpSentRate |-> IF tcpSentRate > 0 THEN Sprintf2f(tcpSentRate) ELSE Empty]

----------------------------------------------------------------------------
(* cytoscape.buildConfig *)

\* a nil map[string]bool
NoDestServices == [k \in {} |-> FALSE]

\* the NodeData of the node n stored under the key id
NodeData(id, n) ==
    LET t == NodeTelemetry(n.Metadata)
    IN  [Id |-> nodeHash(id), Parent |-> Empty,
         NodeType |-> n.NodeType, Namespace |-> n.Namespace, Workload |-> n.Workload,
         App |-> n.App, Version |-> n.Version, Service |-> n.Service,
         DestServices |-> IF "destServices" \in DOMAIN n.Metadata
                          THEN n.Metadata["destServices"] ELSE NoDestServices,
         Rate |-> t.Rate, Rate3xx |-> t.Rate3xx, Rate4xx |-> t.Rate4xx, Rate5xx |-> t.Rate5xx,
         RateOut |-> t.RateOut, RateTcpSent |-> t.RateTcpSent,
         RateTcpSentOut |-> t.RateTcpSentOut,
         HasCB |-> getBool(n.Metadata, "hasCB"),
         HasMissingSC |-> getBool(n.Metadata, "hasMissingSC"),
         HasVS |-> getBool(n.Metadata, "hasVS"),
         IsDead |-> getBool(n.Metadata, "isDead"),
         IsEgress |-> getBool(n.Metadata, "isEgress"),
         IsGroup |-> Empty,
         IsInaccessible |-> getBool(n.Metadata, "isInaccessible"),
         IsMisconfigured |-> IF "isMisconfigured" \in DOMAIN n.Metadata
                             THEN n.Metadata["isMisconfigured"] ELSE Empty,
         IsOutside |-> getBool(n.Metadata, "isOutside"),
         IsRoot |-> getBool(n.Metadata, "isRoot"),
         IsUnused |-> getBool(n.Metadata, "isUnused")]

\* the EdgeData of the edge e of the node n; nodes maps a pointer to its Node
EdgeData(n, e, nodes) ==
    LET sourceIdHash == nodeHash(n.ID)
        destIdHash == nodeHash(nodes[e.Dest].ID)
        protocol == IF "protocol" \in DOMAIN e.Metadata THEN e.Metadata["protocol"] ELSE Empty
        t == EdgeTelemetry(e, nodes[e.Source])
    IN  [Id |-> edgeHash(sourceIdHash, destIdHash, protocol),
         Source |-> sourceIdHash, Target |-> destIdHash,
         Rate |-> t.Rate, Rate3xx |-> t.Rate3xx, Rate4xx |-> t.Rate4xx, Rate5xx |-> t.Rate5xx,
         PercentErr |-> t.PercentErr, PercentRate |-> t.PercentRate,
         ResponseTime |-> t.ResponseTime, IsMTLS |-> t.IsMTLS, IsUnused |-> t.IsUnused,
         TcpSentRate |-> t.TcpSentRate]

RECURSIVE Flatten(_)
Flatten(ss) == IF ss = <<>> THEN <<>> ELSE Head(ss) \o Flatten(Tail(ss))

\* buildConfig with the range over the map visiting the keys in the order
\* given: the nodes and the edges appended
buildConfig(tm, nodes, order) ==
    [nodes |-> Flatten([i \in 1..Len(order) |-> <<NodeData(order[i], nodes[tm[order[i]]])>>]),
     edges |-> Flatten([i \in 1..Len(order) |->
                  LET n == nodes[tm[order[i]]]
                  IN  [j \in 1..Len(n.Edges) |-> EdgeData(n, n.Edges[j], nodes)]])]

----------------------------------------------------------------------------
(* cytoscape.groupByVersion *)

\* fmt.Sprintf("box_%s_%s", namespace, app)
BoxKey(nd) == <<"b", "o", "x", "_">> \o nd.Namespace \o <<"_">> \o nd.App

\* the members of a box, in the order of the nodes
Members(nodes, k) == SelectSeq(nodes, LAMBDA nd : nd.NodeType = NodeTypeApp /\ BoxKey(nd) = k)

\* the compound node of the members of box k
BoxNode(k, members) ==
    [Id |-> nodeHash(k), Parent |-> Empty,
     NodeType |-> NodeTypeApp, Namespace |-> members[1].Namespace, Workload |-> Empty,
     App |-> members[1].App, Version |-> Empty, Service |-> Empty,
     DestServices |-> NoDestServices,
     Rate |-> Empty, Rate3xx |-> Empty, Rate4xx |-> Empty, Rate5xx |-> Empty,
     RateOut |-> Empty, RateTcpSent |-> Empty, RateTcpSentOut |-> Empty,
     HasCB |-> FALSE,
     HasMissingSC |-> \E i \in 1..Len(members) : members[i].HasMissingSC,
     HasVS |-> FALSE, IsDead |-> FALSE, IsEgress |-> FALSE,
     IsGroup |-> GroupByVersion,
     IsInaccessible |-> \E i \in 1..Len(members) : members[i].IsInaccessible,
     IsMisconfigured |-> Empty,
     IsOutside |-> \E i \in 1..Len(members) : members[i].IsOutside,
     IsRoot |-> FALSE, IsUnused |-> FALSE]

\* mutant: a box is made for every app, also one with a single member
BoxedAlways(nodes, k) == Len(Members(nodes, k)) > 0

\* a box is made for the key k
Boxed(nodes, k) == Len(Members(nodes, k)) > 1

\* groupByVersion with the range over the grouped map visiting the keys in
\* the order given
groupByVersion(nodes, keyOrder) ==
    [i \in 1..Len(nodes) |->
        IF nodes[i].NodeType = NodeTypeApp /\ Boxed(nodes, BoxKey(nodes[i]))
        THEN [nodes[i] EXCEPT !.Parent = nodeHash(BoxKey(nodes[i]))]
        ELSE nodes[i]]
    \o Flatten([i \in 1..Len(keyOrder) |->
                  IF Boxed(nodes, keyOrder[i])
                  THEN <<BoxNode(keyOrder[i], Members(nodes, keyOrder[i]))>>
                  ELSE <<>>])

GroupKeys(nodes) == {BoxKey(nodes[i]) : i \in {j \in 1..Len(nodes) : nodes[j].NodeType = NodeTypeApp}}

----------------------------------------------------------------------------
(* cytoscape.NewConfig *)

\* mutant: the node sort puts the compound nodes of a namespace last
NodeLessGroupLast(a, b) ==
    IF a.Namespace # b.Namespace THEN StrLess(a.Namespace, b.Namespace)
    ELSE IF a.IsGroup # b.IsGroup THEN StrLess(a.IsGroup, b.IsGroup)
    ELSE IF a.App # b.App THEN StrLess(a.App, b.App)
    ELSE IF a.Version # b.Version THEN StrLess(a.Version, b.Version)
    ELSE IF a.Service # b.Service THEN StrLess(a.Service, b.Service)
    ELSE StrLess(a.Workload, b.Workload)

\* the less function of the sort of the nodes
NodeLess(a, b) ==
    IF a.Namespace # b.Namespace THEN StrLess(a.Namespace, b.Namespace)
    ELSE IF a.IsGroup # b.IsGroup THEN StrLess(b.IsGroup, a.IsGroup)
    ELSE IF a.App # b.App THEN StrLess(a.App, b.App)
    ELSE IF a.Version # b.Version THEN StrLess(a.Version, b.Version)
    ELSE IF a.Service # b.Service THEN StrLess(a.Service, b.Service)
    ELSE StrLess(a.Workload, b.Workload)

\* the less function of the sort of the edges
EdgeLess(a, b) ==
    IF HashLess(a.Source, b.Source) THEN TRUE
    ELSE IF HashLess(b.Source, a.Source) THEN FALSE
    ELSE HashLess(a.Target, b.Target)

\* the sequences that list the elements of the set S once each: the orders
\* in which a range over a map with the keys S can visit them
RECURSIVE Perms(_)
Perms(S) ==
    IF S = {} THEN {<<>>}
    ELSE UNION {{<<x>> \o p : p \in Perms(S \ {x})} : x \in S}

\* the pairs of positions <<i, j>> of the slice for which the less function
\* of the node sort, of the edge sort, returns true
NodesLess(s) == {p \in (1..Len(s)) \X (1..Len(s)) : NodeLess(s[p[1]], s[p[2]])}

EdgesLess(s) == {p \in (1..Len(s)) \X (1..Len(s)) : EdgeLess(s[p[1]], s[p[2]])}

\* sort.Slice(s, less) is not stable: the outcomes are the arrangements of
\* s in which no element is less than one before it
SortSlice(s, less) ==
    LET RECURSIVE Arrange(_)
        \* the next element is one of those that none of the rest is less than
        Arrange(I) ==
            IF I = {} THEN {<<>>}
            ELSE UNION {{<<s[i]>> \o q : q \in Arrange(I \ {i})} :
                           i \in {i \in I : \A j \in I : <<j, i>> \notin less}}
    IN  Arrange(1..Len(s))

\* NewConfig after buildConfig has filled nodes and edges: the optional
\* grouping, the two sorts, the Config
configOf(nodes, edges, o) ==
    LET grouped == IF o.GraphType = GraphTypeVersionedApp /\ o.GroupBy = GroupByVersion
                   THEN {groupByVersion(nodes, keyOrder) : keyOrder \in Perms(GroupKeys(nodes))}
                   ELSE {nodes}
    IN  {[Timestamp |-> o.Timestamp, GraphType |-> o.GraphType,
          Elements |-> [Nodes |-> ns, Edges |-> es]] :
             ns \in UNION {SortSlice(all, NodesLess(all)) : all \in grouped},
             es \in SortSlice(edges, EdgesLess(edges))}

\* the documents NewConfig can return for the traffic map tm (keys to
\* pointers, nodes: pointers to Nodes) and the vendor options o
NewConfig(tm, nodes, o) ==
    UNION {configOf(b.nodes, b.edges, o) :
              b \in {buildConfig(tm, nodes, order) : order \in Perms(DOMAIN tm)}}

----------------------------------------------------------------------------
(* graph.NewTrafficMap, Node.AddEdge, graph.NewEdge *)

NewTrafficMap == <<>>

NewEdge(source, dest) == [Source |-> source, Dest |-> dest, Metadata |-> EmptyMetadata]

\* mutant: AddEdge adds no second edge to a destination
AddEdgeOnce(nodes, s, dest) ==
    IF \E i \in 1..Len(nodes[s].Edges) : nodes[s].Edges[i].Dest = dest
    THEN nodes
    ELSE [nodes EXCEPT ![s].Edges = Append(@, NewEdge(s, dest))]

\* s.AddEdge(dest) on the node at the pointer s: the nodes after the call
AddEdge(nodes, s, dest) == [nodes EXCEPT ![s].Edges = Append(@, NewEdge(s, dest))]

\* the *Edge that s.AddEdge(dest) returns: &e, the pointer it has appended
\* to s.Edges, named by the source and the position in the list
AddEdgeReturn(nodes, s, dest) == [Source |-> s, Index |-> Len(nodes[s].Edges) + 1]

----------------------------------------------------------------------------
(* Serializer specification: a request builds its traffic map from nodes   *)
(* and edges, then hands it to NewConfig; NewConfig is called twice on the *)
(* finished map                                                            *)

\* the most nodes of a traffic map
MaxNodes == 2
\* the most edges of a traffic map
MaxEdges == 2

\* the telemetry: the unknown source, three workloads of the app a1 in the
\* namespace n1, two of them of one version, and a workload of a1 in n2
CfgArgs ==
    <<[namespace |-> Unknown, workload |-> Unknown, app |-> Unknown, version |-> Unknown, service |-> Empty],
      [namespace |-> <<"n", "1">>, workload |-> <<"w", "1">>, app |-> <<"a", "1">>, version |-> <<"v", "1">>, service |-> Empty],
      [namespace |-> <<"n", "1">>, workload |-> <<"w", "2">>, app |-> <<"a", "1">>, version |-> <<"v", "2">>, service |-> Empty],
      [namespace |-> <<"n", "1">>, workload |-> <<"w", "3">>, app |-> <<"a", "1">>, version |-> <<"v", "1">>, service |-> Empty],
      [namespace |-> <<"n", "2">>, workload |-> <<"w", "4">>, app |-> <<"a", "1">>, version |-> <<"v", "1">>, service |-> Empty]>>

\* the traffic: who calls whom, by position in CfgArgs
CfgFlows == {<<1, 2>>, <<2, 3>>, <<2, 4>>, <<3, 5>>}

\* the graph type and the group-by mode of the request
CfgModes ==
    {<<GraphTypeVersionedApp, GroupByVersion>>, <<GraphTypeVersionedApp, <<"a", "p", "p">>>>,
     <<GraphTypeApp, GroupByVersion>>, <<GraphTypeWorkload, GroupByVersion>>}

Protocols == {<<"t", "c", "p">>}

\* the ID of the node of a telemetry entry
CfgId(i) ==
    Id(CfgArgs[i].namespace, CfgArgs[i].workload, CfgArgs[i].app, CfgArgs[i].version,
       CfgArgs[i].service, graphType).id

VendorOptions == [GraphType |-> graphType, GroupBy |-> groupBy, Timestamp |-> 0]

EdgeCount == LET ptrs == DOMAIN heap
                 RECURSIVE Sum(_)
                 Sum(S) == IF S = {} THEN 0
                           ELSE LET p == CHOOSE x \in S : TRUE
                                IN  Len(heap[p].Edges) + Sum(S \ {p})
             IN  Sum(ptrs)

CfgInit ==
    /\ \E m \in CfgModes : graphType = m[1] /\ groupBy = m[2]
    /\ trafficMap = NewTrafficMap
    /\ heap = <<>>
    /\ docs = <<>>
    /\ built = <<>>
    /\ OptIdle
    /\ ConIdle

\* the builder meets a node in the telemetry: a node that is not in the map
\* is made with NewNode and stored under its ID
AddNode ==
    /\ docs = <<>>
    /\ Cardinality(DOMAIN trafficMap) < MaxNodes
    /\ \E i \in 1..Len(CfgArgs) :
          LET a == CfgArgs[i]
              n == NewNode(a.namespace, a.workload, a.app, a.version, a.service, graphType)
          IN  /\ ~Panicked(n)
              /\ n.ID \notin DOMAIN trafficMap
              /\ heap' = (n.ID :> n) @@ heap
              /\ trafficMap' = (n.ID :> n.ID) @@ trafficMap
    /\ UNCHANGED <<graphType, groupBy, docs, built, optVars, conVars>>

\* the builder adds the edge of a telemetry sample: e := source.AddEdge(dest);
\* built keeps the calls made and what each returned
CallAddEdge ==
    /\ docs = <<>>
    /\ EdgeCount < MaxEdges
    /\ \E f \in CfgFlows :
          /\ CfgId(f[1]) \in DOMAIN trafficMap
          /\ CfgId(f[2]) \in DOMAIN trafficMap
          /\ heap' = AddEdge(heap, trafficMap[CfgId(f[1])], trafficMap[CfgId(f[2])])
          /\ built' = Append(built,
                        [source |-> trafficMap[CfgId(f[1])], dest |-> trafficMap[CfgId(f[2])],
                         e |-> AddEdgeReturn(heap, trafficMap[CfgId(f[1])], trafficMap[CfgId(f[2])])])
    /\ UNCHANGED <<graphType, groupBy, trafficMap, docs, optVars, conVars>>

\* the builder records the protocol of an edge: e.Metadata["protocol"] = p
SetProtocol ==
    /\ docs = <<>>
    /\ \E s \in DOMAIN heap : \E i \in 1..Len(heap[s].Edges) : \E p \in Protocols :
          /\ "protocol" \notin DOMAIN heap[s].Edges[i].Metadata
          /\ heap' = [heap EXCEPT ![s].Edges[i].Metadata = ("protocol" :> p) @@ @]
    /\ UNCHANGED <<graphType, groupBy, trafficMap, docs, built, optVars, conVars>>

\* the handler serializes the map: NewConfig(trafficMap, o)
Serialize ==
    /\ Len(docs) < 2
    /\ \E doc \in NewConfig(trafficMap, heap, VendorOptions) :
          docs' = Append(docs, doc)
    /\ UNCHANGED <<graphType, groupBy, trafficMap, heap, built, optVars, conVars>>

CfgNext == AddNode \/ CallAddEdge \/ SetProtocol \/ Serialize

SpecConfig == CfgInit /\ [][CfgNext]_vars


----------------------------------------------------------------------------
(* Stage specification: between the builder and the serializer a stage of  *)
(* the pipeline may take a node out of the traffic map                     *)

\* the builder makes a node for an ID it has not made a node for
AddNewNode == AddNode /\ DOMAIN heap' # DOMAIN heap

\* a stage removes a node: delete(trafficMap, id); the Node stays where the
\* edges of other nodes point to
RemoveNode ==
    /\ docs = <<>>
    /\ \E id \in DOMAIN trafficMap :
          trafficMap' = [k \in DOMAIN trafficMap \ {id} |-> trafficMap[k]]
    /\ UNCHANGED <<graphType, groupBy, heap, docs, built, optVars, conVars>>

StageNext == AddNewNode \/ CallAddEdge \/ RemoveNode \/ Serialize

SpecStages == CfgInit /\ [][StageNext]_vars

----------------------------------------------------------------------------
(* Node-telemetry specification: the appenders have annotated the source   *)
(* node of a two-node workload graph with rates; the map is serialized     *)

\* the two workloads of the graph and the map the builder has made of them,
\* with one edge from the first to the second
TelSource == NewNode(<<"n", "1">>, <<"w", "1">>, <<"a", "1">>, <<"v", "1">>, Empty, GraphTypeWorkload)
TelDest == NewNode(<<"n", "1">>, <<"w", "2">>, <<"a", "1">>, <<"v", "2">>, Empty, GraphTypeWorkload)

TelTrafficMap == (TelSource.ID :> TelSource.ID) @@ (TelDest.ID :> TelDest.ID)

TelHeap == AddEdge((TelSource.ID :> TelSource) @@ (TelDest.ID :> TelDest),
                   TelSource.ID, TelDest.ID)

\* metadata bags: each key of keys is absent or has one of the values
Bags(keys, values) == UNION {[ks -> values] : ks \in SUBSET keys}

\* the rate keys of a node; a rate is counted in hundredths
NodeRateKeys == {"rate", "rate3xx", "rate4xx", "rate5xx", "rateOut", "tcpSentRate", "tcpSentRateOut"}
NodeRateValues == {0, 150}

TelInit ==
    /\ graphType = GraphTypeWorkload
    /\ groupBy = GroupByVersion
    /\ trafficMap = TelTrafficMap
    /\ heap = TelHeap
    /\ docs = <<>>
    /\ built = <<>>
    /\ OptIdle
    /\ ConIdle

\* the appenders write the rates of the source node
AnnotateNode ==
    /\ docs = <<>>
    /\ DOMAIN heap[TelSource.ID].Metadata = {}
    /\ \E md \in Bags(NodeRateKeys, NodeRateValues) :
          /\ md # EmptyMetadata
          /\ heap' = [heap EXCEPT ![TelSource.ID].Metadata = md]
    /\ UNCHANGED <<graphType, groupBy, trafficMap, docs, built, optVars, conVars>>

NodeTelNext == AnnotateNode \/ Serialize

SpecNodeTelemetry == TelInit /\ [][NodeTelNext]_vars

----------------------------------------------------------------------------
(* Edge-telemetry specification: the appenders have annotated the edge of  *)
(* the two-node workload graph and the outbound rate of its source; the    *)
(* map is serialized                                                       *)

\* the keys of an edge that the serializer reads under its rate, and their
\* values in hundredths: 0, 1.00, 10.00
EdgeRateKeys == {"rate", "rate3xx", "rate4xx", "rate5xx", "responseTime"}
EdgeRateValues == {0, 100, 1000}
\* the outbound rates of the source: 0, 5.00, 10.00, 20.00
SourceRateValues == {0, 500, 1000, 2000}

\* the appenders write the rates of the edge
AnnotateEdge ==
    /\ docs = <<>>
    /\ DOMAIN heap[TelSource.ID].Edges[1].Metadata = {}
    /\ \E md \in Bags(EdgeRateKeys, EdgeRateValues) :
          /\ md # EmptyMetadata
          /\ heap' = [heap EXCEPT ![TelSource.ID].Edges[1].Metadata = md]
    /\ UNCHANGED <<graphType, groupBy, trafficMap, docs, built, optVars, conVars>>

\* the appenders write the outbound rate of the source node
AnnotateSource ==
    /\ docs = <<>>
    /\ DOMAIN heap[TelSource.ID].Metadata = {}
    /\ \E r \in SourceRateValues :
          heap' = [heap EXCEPT ![TelSource.ID].Metadata = ("rateOut" :> r)]
    /\ UNCHANGED <<graphType, groupBy, trafficMap, docs, built, optVars, conVars>>

EdgeTelNext == AnnotateEdge \/ AnnotateSource \/ Serialize

SpecEdgeTelemetry == TelInit /\ [][EdgeTelNext]_vars

----------------------------------------------------------------------------
(* Identity specification: one request's graph type, two independent       *)
(* NewNode calls on inputs drawn from the label values telemetry supplies  *)

IdNamespaces == {Unknown, <<"n", "1">>}
IdWorkloads == {Empty, Unknown, <<"w", "1">>, <<"w", "2">>}
IdApps == {Empty, Unknown, <<"a", "1">>, <<"a", "2">>}
IdVersions == {Empty, Unknown, <<"v", "1">>}
IdServices == {Empty, Unknown, <<"s", "1">>}
\* the four graph types and one string that is none of them
IdGraphTypes == {GraphTypeApp, GraphTypeService, GraphTypeVersionedApp, GraphTypeWorkload,
                 <<"x">>}

IdArgs == [namespace : IdNamespaces, workload : IdWorkloads, app : IdApps,
           version : IdVersions, service : IdServices]

IdInit ==
    /\ graphType \in IdGraphTypes
    /\ built = <<>>
    /\ OptIdle
    /\ ConIdle
    /\ CfgIdle

\* a caller builds a node: id, nodeType := Id(...); NewNodeExplicit(...)
CallNewNode ==
    /\ Len(built) < 2
    /\ \E a \in IdArgs :
          built' = Append(built,
                     [args |-> a,
                      id   |-> Id(a.namespace, a.workload, a.app, a.version, a.service, graphType),
                      node |-> NewNode(a.namespace, a.workload, a.app, a.version, a.service, graphType)])
    /\ UNCHANGED <<graphType, optVars, cfgVars, conVars>>

IdNext == CallNewNode

SpecId == IdInit /\ [][IdNext]_vars

----------------------------------------------------------------------------
(* Explicit-node specification: one request's graph type, one call of      *)
(* NewNodeExplicit with an id and a node type of the caller's choosing     *)

ExplicitIds == {Empty, <<"i", "d">>}
\* the four node types and one string that is none of them
ExplicitNodeTypes == {NodeTypeApp, NodeTypeService, NodeTypeUnknown, NodeTypeWorkload, <<"x">>}

ExplicitArgs == [id : ExplicitIds, nodeType : ExplicitNodeTypes,
                 namespace : IdNamespaces, workload : IdWorkloads, app : IdApps,
                 version : IdVersions, service : IdServices]

ExplicitInit ==
    /\ graphType \in IdGraphTypes
    /\ built = <<>>
    /\ OptIdle
    /\ ConIdle
    /\ CfgIdle

\* a caller builds a node: NewNodeExplicit(id, ..., nodeType, graphType)
CallNewNodeExplicit ==
    /\ built = <<>>
    /\ \E a \in ExplicitArgs :
          built' = <<[args |-> a,
                      node |-> NewNodeExplicit(a.id, a.namespace, a.workload, a.app, a.version,
                                               a.service, a.nodeType, graphType)]>>
    /\ UNCHANGED <<graphType, optVars, cfgVars, conVars>>

ExplicitNext == CallNewNodeExplicit

SpecExplicit == ExplicitInit /\ [][ExplicitNext]_vars


----------------------------------------------------------------------------
(* Concurrent specification: two graph requests are served at once, each   *)
(* by its own goroutine. The goroutines share the address space (heap) and *)
(* the collaborators (env); a request's Options, TrafficMap and Config are *)
(* locals of its goroutine                                                 *)

Workers == {1, 2}

\* mutant: nodes are interned by ID, a second node of an ID takes the
\* address of the first
Interned(nodes, n) ==
    IF \E p \in DOMAIN nodes : nodes[p].ID = n.ID
    THEN CHOOSE p \in DOMAIN nodes : nodes[p].ID = n.ID
    ELSE Cardinality(DOMAIN nodes) + 1

\* the address of the Node n when it escapes to the heap (&n): one that no
\* live object has
Fresh(nodes, n) == Cardinality(DOMAIN nodes) + 1

\* the steps that build the traffic map of a request from its telemetry:
\* a node of CfgArgs met for the first time, or an edge between two nodes
ConPlans ==
    {<<[op |-> "node", i |-> 2, j |-> 0], [op |-> "node", i |-> 3, j |-> 0],
       [op |-> "edge", i |-> 2, j |-> 3]>>,
     <<[op |-> "node", i |-> 3, j |-> 0], [op |-> "node", i |-> 2, j |-> 0],
       [op |-> "edge", i |-> 3, j |-> 2], [op |-> "edge", i |-> 3, j |-> 2]>>}

\* the requests: a namespace the caller may see or one it may not, the
\* default graph type or the app graph
ConRequests ==
    {[app |-> Empty, version |-> Empty, service |-> Empty, workload |-> Empty,
      namespace |-> ns, listed |-> <<Empty>>, namespaces |-> Empty,
      duration |-> [err |-> TRUE, val |-> 0], queryTime |-> [err |-> TRUE, val |-> 0],
      includeIstio |-> [err |-> TRUE, val |-> FALSE],
      injectServiceNodes |-> [err |-> TRUE, val |-> FALSE],
      graphType |-> gt, groupBy |-> Empty, vendor |-> Empty,
      appenders |-> NoParam, named |-> <<>>, responseTimeQuantile |-> NoQuantile] :
        ns \in {<<"n", "1">>, <<"n", "2">>}, gt \in {Empty, GraphTypeVersionedApp}}

\* the collaborators' answers: the caller sees n1, created at 100; it is 120
ConEnv == [lookupFails |-> FALSE, accessible |-> {<<"n", "1">>}, created |-> (<<"n", "1">> :> 100),
           now |-> 120, names |-> CHOOSE n \in AppenderNameSpellings : TRUE]

\* the locals of a goroutine that has not started
Arrived(r, plan) ==
    [req |-> r, plan |-> plan, pc |-> "start", at |-> 0,
     options |-> <<>>, trafficMap |-> NewTrafficMap, doc |-> <<>>]

ConInit ==
    /\ workers \in [Workers -> {Arrived(r, plan) : r \in ConRequests, plan \in ConPlans}]
    /\ env = ConEnv
    /\ heap = <<>>
    /\ resolved = <<>>
    /\ trafficMap = <<>>
    /\ groupBy = GroupByVersion
    /\ docs = <<>>
    /\ IdIdle

\* the node of the telemetry entry i in a graph of the type gt
ConNode(i, gt) ==
    NewNode(CfgArgs[i].namespace, CfgArgs[i].workload, CfgArgs[i].app, CfgArgs[i].version,
            CfgArgs[i].service, gt)

\* the traffic map tm and the heap after the step: a node is made with
\* NewNode, its address stored under its ID; an edge is added by AddEdge
PlanStep(tm, nodes, step, gt) ==
    IF step.op = "node"
    THEN LET n == ConNode(step.i, gt)
             p == Fresh(nodes, n)
         IN  [trafficMap |-> (n.ID :> p) @@ tm, heap |-> (p :> n) @@ nodes]
    ELSE [trafficMap |-> tm,
          heap |-> AddEdge(nodes, tm[ConNode(step.i, gt).ID], tm[ConNode(step.j, gt).ID])]

\* the goroutine w resolves its options: options := NewOptions(r); a panic
\* ends the request
ConNewOptions(w) ==
    /\ workers[w].pc = "start"
    /\ LET o == NewOptions(workers[w].req)
       IN  workers' = [workers EXCEPT ![w].options = o,
                                      ![w].pc = IF Panicked(o) THEN "failed" ELSE "build"]
    /\ UNCHANGED <<heap, env, resolved, graphType, built, groupBy, trafficMap, docs>>

\* the goroutine w takes the next step of building its traffic map
ConBuild(w) ==
    /\ workers[w].pc = "build"
    /\ workers[w].at < Len(workers[w].plan)
    /\ LET after == PlanStep(workers[w].trafficMap, heap, workers[w].plan[workers[w].at + 1],
                             workers[w].options.GraphType)
       IN  /\ heap' = after.heap
           /\ workers' = [workers EXCEPT ![w].trafficMap = after.trafficMap,
                                         ![w].at = @ + 1]
    /\ UNCHANGED <<env, resolved, graphType, built, groupBy, trafficMap, docs>>

\* the goroutine w serializes its map: NewConfig(trafficMap, options.VendorOptions)
ConNewConfig(w) ==
    /\ workers[w].pc = "build"
    /\ workers[w].at = Len(workers[w].plan)
    /\ \E doc \in NewConfig(workers[w].trafficMap, heap, workers[w].options) :
          workers' = [workers EXCEPT ![w].doc = doc, ![w].pc = "done"]
    /\ UNCHANGED <<heap, env, resolved, graphType, built, groupBy, trafficMap, docs>>

ConNext == \E w \in Workers : ConNewOptions(w) \/ ConBuild(w) \/ ConNewConfig(w)

SpecConcurrent == ConInit /\ [][ConNext]_vars


----------------------------------------------------------------------------
(* handlers.extractMetricsQueryParams. Instants and durations are counted  *)
(* in seconds; a value a strconv parser reads is given by the parser's     *)
(* outcome                                                                 *)

\* the nil error
Nil == [nil |-> TRUE]

\* errors.New("Bad request, ..."): the bad-request errors, by parameter
BadRequest(param) == [nil |-> FALSE, badRequest |-> TRUE, about |-> param]

\* the errors that are no bad request: a collaborator's, or the last check's
OtherError(from) == [nil |-> FALSE, badRequest |-> FALSE, about |-> from]

\* queryParams[name] of a parameter that is given with a value, <<>> otherwise
Param(r, name) == IF name \in DOMAIN r.query THEN r.query[name] ELSE <<>>

\* q.FillDefaults() of package prometheus, as the handler's tests see it:
\* the last 30 minutes up to now, a step of 15 seconds, the interval "1m";
\* the default rate function and average flag are the collaborator's
FillDefaults(q, r) ==
    [q EXCEPT !.End = r.now, !.Start = r.now - 1800, !.Step = 15,
              !.RateInterval = <<"1", "m">>, !.RateFunc = r.defaultRateFunc, !.Avg = TRUE]

DigitValue(c) == IndexOf(c, <<"0", "1", "2", "3", "4", "5", "6", "7", "8", "9">>) - 1

RECURSIVE Atoi(_)
Atoi(s) == IF s = <<>> THEN 0 ELSE 10 * Atoi(SubSeq(s, 1, Len(s) - 1)) + DigitValue(s[Len(s)])

\* time.ParseDuration of a number of seconds, minutes or hours
ParseDuration(s) ==
    IF /\ Len(s) >= 2
       /\ InStr(s[Len(s)], <<"s", "m", "h">>)
       /\ \A i \in 1..(Len(s) - 1) : InStr(s[i], <<"0", "1", "2", "3", "4", "5", "6", "7", "8", "9">>)
    THEN [err |-> FALSE,
          val |-> Atoi(SubSeq(s, 1, Len(s) - 1)) *
                  (CASE s[Len(s)] = "s" -> 1 [] s[Len(s)] = "m" -> 60 [] s[Len(s)] = "h" -> 3600)]
    ELSE [err |-> TRUE, val |-> 0]

\* util.GetStartTimeForRateInterval(baseTime, rateInterval): the base time
\* less the interval, an error for an interval that is no duration
GetStartTimeForRateInterval(baseTime, rateInterval) ==
    LET d == ParseDuration(rateInterval)
    IN  IF d.err THEN d ELSE [err |-> FALSE, val |-> baseTime - d.val]

\* fmt.Sprintf("%ds", n)
SprintfDs(n) == IF n < 0 THEN <<"-">> \o Digits(0 - n) \o <<"s">> ELSE Digits(n) \o <<"s">>

\* a / b of Go's integers: the quotient truncated toward zero, b # 0
GoDiv(a, b) ==
    LET abs(x) == IF x < 0 THEN 0 - x ELSE x
        m == abs(a) \div abs(b)
    IN  IF (a < 0) = (b < 0) THEN m ELSE 0 - m

\* the outcome of a step of the function: the query as it stands, and the
\* error the function returns with, Nil to go on
Going(q) == [panic |-> FALSE, q |-> q, err |-> Nil]

Returning(q, err) == [panic |-> FALSE, q |-> q, err |-> err]

rateIntervalParam(q, r) ==
    LET rateIntervals == Param(r, "rateInterval")
    IN  IF rateIntervals # <<>> THEN Going([q EXCEPT !.RateInterval = rateIntervals[1]])
        ELSE Going(q)

\* mutant: an unsupported rate function is passed over
rateFuncParamLenient(q, r) ==
    LET rateFuncs == Param(r, "rateFunc")
    IN  IF rateFuncs # <<>> /\ rateFuncs[1] \in {<<"r", "a", "t", "e">>, <<"i", "r", "a", "t", "e">>}
        THEN Going([q EXCEPT !.RateFunc = rateFuncs[1]])
        ELSE Going(q)

rateFuncParam(q, r) ==
    LET rateFuncs == Param(r, "rateFunc")
    IN  IF rateFuncs # <<>>
        THEN IF rateFuncs[1] # <<"r", "a", "t", "e">> /\ rateFuncs[1] # <<"i", "r", "a", "t", "e">>
             THEN Returning(q, BadRequest("rateFunc"))
             ELSE Going([q EXCEPT !.RateFunc = rateFuncs[1]])
        ELSE Going(q)

queryTimeParam(q, r) ==
    LET queryTimes == Param(r, "queryTime")
    IN  IF queryTimes # <<>>
        THEN IF ~queryTimes[1].err THEN Going([q EXCEPT !.End = queryTimes[1].val])
             ELSE Returning(q, BadRequest("queryTime"))
        ELSE Going(q)

\* mutant: the duration is counted back from the clock, not from q.End
durationParamFromNow(q, r) ==
    LET durations == Param(r, "duration")
    IN  IF durations # <<>>
        THEN IF ~durations[1].err THEN Going([q EXCEPT !.Start = r.now - durations[1].val])
             ELSE Returning(q, BadRequest("duration"))
        ELSE Going(q)

durationParam(q, r) ==
    LET durations == Param(r, "duration")
    IN  IF durations # <<>>
        THEN IF ~durations[1].err THEN Going([q EXCEPT !.Start = q.End - durations[1].val])
             ELSE Returning(q, BadRequest("duration"))
        ELSE Going(q)

stepParam(q, r) ==
    LET steps == Param(r, "step")
    IN  IF steps # <<>>
        THEN IF ~steps[1].err THEN Going([q EXCEPT !.Step = steps[1].val])
             ELSE Returning(q, BadRequest("step"))
        ELSE Going(q)

filtersParam(q, r) ==
    LET filters == Param(r, "filters[]")
    IN  IF filters # <<>> THEN Going([q EXCEPT !.Filters = filters]) ELSE Going(q)

\* a quantile is a float counted in hundredths
quantilesParam(q, r) ==
    LET quantiles == Param(r, "quantiles[]")
        wrong == {i \in 1..Len(quantiles) :
                     quantiles[i].err \/ quantiles[i].val < 0 \/ quantiles[i].val > 100}
        first == CHOOSE i \in wrong : \A j \in wrong : i <= j
    IN  IF quantiles # <<>>
        THEN IF wrong # {}
             THEN IF quantiles[first].err THEN Returning(q, BadRequest("quantiles"))
                  ELSE Returning(q, BadRequest("quantiles, between 0 and 1"))
             ELSE Going([q EXCEPT !.Quantiles = quantiles])
        ELSE Going(q)

avgParam(q, r) ==
    LET avgFlags == Param(r, "avg")
    IN  IF avgFlags # <<>>
        THEN IF ~avgFlags[1].err THEN Going([q EXCEPT !.Avg = avgFlags[1].val])
             ELSE Returning(q, BadRequest("avg"))
        ELSE Going(q)

byLabelsParams(q, r) ==
    LET lblsin == Param(r, "byLabelsIn[]")
        lblsout == Param(r, "byLabelsOut[]")
    IN  Going([q EXCEPT !.ByLabelsIn = IF lblsin # <<>> THEN lblsin ELSE @,
                        !.ByLabelsOut = IF lblsout # <<>> THEN lblsout ELSE @])

\* the bounds the life of the namespace puts on the interval and the start,
\* and the start made a multiple of the step; a step of zero seconds
\* divides by zero
namespaceBounds(q, r) ==
    LET namespace == r.k8s
        start == GetStartTimeForRateInterval(q.End, q.RateInterval)
        early == start.val < namespace.created
        q1 == IF early THEN [q EXCEPT !.RateInterval = SprintfDs(q.End - namespace.created)]
              ELSE q
        intervalStartTime == IF early THEN namespace.created ELSE start.val
        intervalDuration == q1.End - intervalStartTime
        allowedStart == namespace.created + intervalDuration
        q2 == IF q1.Start < allowedStart THEN [q1 EXCEPT !.Start = allowedStart] ELSE q1
        stepInSecs == q2.Step
    IN  IF namespace.err THEN Returning(q, OtherError("GetNamespace"))
        ELSE IF start.err THEN Returning(q, OtherError("GetStartTimeForRateInterval"))
        ELSE IF q1.Start < allowedStart /\ q2.Start > q2.End
        THEN Returning(q2, OtherError("start time is after end time"))
        ELSE IF stepInSecs = 0 THEN [panic |-> TRUE, q |-> q2, err |-> Nil]
        ELSE Going([q2 EXCEPT !.Start = GoDiv(q2.Start, stepInSecs) * stepInSecs])

\* the steps of the function, in the order of the code
MetricsSteps == 10

MetricsStep(k, q, r) ==
    CASE k = 1 -> rateIntervalParam(q, r)
      [] k = 2 -> rateFuncParam(q, r)
      [] k = 3 -> queryTimeParam(q, r)
      [] k = 4 -> durationParam(q, r)
      [] k = 5 -> stepParam(q, r)
      [] k = 6 -> filtersParam(q, r)
      [] k = 7 -> quantilesParam(q, r)
      [] k = 8 -> avgParam(q, r)
      [] k = 9 -> byLabelsParams(q, r)
      [] k = 10 -> namespaceBounds(q, r)

\* the function from its step k on: an error or a panic ends it
RECURSIVE MetricsFrom(_, _, _)
MetricsFrom(k, q, r) ==
    LET s == MetricsStep(k, q, r)
    IN  IF s.panic \/ ~s.err.nil \/ k = MetricsSteps THEN s
        ELSE MetricsFrom(k + 1, s.q, r)

\* extractMetricsQueryParams(r, q, k8s): the query at the return (the
\* caller's, written through the pointer) and the error returned
extractMetricsQueryParams(r, q) == MetricsFrom(1, FillDefaults(q, r), r)

----------------------------------------------------------------------------
(* Metrics specification: one request for the metrics of a namespace       *)

\* the query of the caller before the call: the namespace of the path
NewMetricsQuery ==
    [Namespace |-> <<"n", "s">>, RateInterval |-> Empty, RateFunc |-> Empty, End |-> 0, Start |-> 0,
     Step |-> 0, Filters |-> <<>>, Quantiles |-> <<>>, Avg |-> FALSE,
     ByLabelsIn |-> <<>>, ByLabelsOut |-> <<>>]

\* the clock of the request
MetricsNow == 100000

\* the values of a parameter: not given, or the list of its values
Given(name, lists) == {<<>>} \cup {(name :> l) : l \in lists}

RateFuncLists ==
    {<<<<"r", "a", "t", "e">>>>, <<<<"i", "r", "a", "t", "e">>>>, <<<<"R", "a", "t", "e">>>>, <<<<"s", "u", "m">>>>, <<Empty>>,
     <<<<"i", "r", "a", "t", "e">>, <<"s", "u", "m">>>>, <<<<"s", "u", "m">>, <<"r", "a", "t", "e">>>>}

\* the rate functions FillDefaults may set
DefaultRateFuncs == {<<"r", "a", "t", "e">>, <<"i", "r", "a", "t", "e">>}

\* the answers of k8s.GetNamespace: an error, a namespace with the zero
\* creation time (long before any interval), one created ten minutes ago
MetricsNamespaces ==
    {[err |-> TRUE, created |-> 0], [err |-> FALSE, created |-> 0 - 2000000000],
     [err |-> FALSE, created |-> MetricsNow - 600]}

MetricsRequests ==
    {[now |-> MetricsNow, defaultRateFunc |-> d, k8s |-> ns,
      query |-> ri @@ rf @@ qt @@ du @@ st @@ qu @@ av @@ fl] :
        d \in DefaultRateFuncs, ns \in MetricsNamespaces,
        ri \in Given("rateInterval", {<<<<"5", "h">>>>, <<<<"x">>>>}),
        rf \in Given("rateFunc", RateFuncLists),
        qt \in Given("queryTime", {<<[err |-> TRUE, val |-> 0]>>, <<[err |-> FALSE, val |-> 90000]>>,
                                   <<[err |-> FALSE, val |-> 500]>>}),
        du \in Given("duration", {<<[err |-> FALSE, val |-> 1000]>>,
                                  <<[err |-> FALSE, val |-> 0 - 1000]>>}),
        st \in Given("step", {<<[err |-> TRUE, val |-> 0]>>, <<[err |-> FALSE, val |-> 0]>>,
                              <<[err |-> FALSE, val |-> 7]>>, <<[err |-> FALSE, val |-> 0 - 7]>>}),
        qu \in Given("quantiles[]", {<<[err |-> FALSE, val |-> 50], [err |-> FALSE, val |-> 95]>>,
                                     <<[err |-> FALSE, val |-> 50], [err |-> FALSE, val |-> 150]>>}),
        av \in Given("avg", {<<[err |-> TRUE, val |-> FALSE]>>}),
        fl \in {<<>>, ("filters[]" :> <<<<"f">>>>) @@ ("byLabelsIn[]" :> <<<<"c">>>>)}}

MetricsInit ==
    /\ built = <<>>
    /\ graphType = GraphTypeWorkload
    /\ OptIdle
    /\ CfgIdle
    /\ ConIdle

\* the handler reads the parameters of a request:
\* err := extractMetricsQueryParams(r, &q, k8s)
CallExtractMetricsQueryParams ==
    /\ built = <<>>
    /\ \E r \in MetricsRequests :
          built' = <<[args |-> r, out |-> extractMetricsQueryParams(r, NewMetricsQuery)]>>
    /\ UNCHANGED <<graphType, optVars, cfgVars, conVars>>

MetricsNext == CallExtractMetricsQueryParams

SpecMetrics == MetricsInit /\ [][MetricsNext]_vars

----------------------------------------------------------------------------
(* Properties of the identity scheme *)

Resolves(x) == x # Empty /\ x # Unknown

\* rule 1: the unknown source
SentinelSource(a) ==
    a.namespace = Unknown /\ a.workload = Unknown /\ a.app = Unknown /\ a.service = Empty

\* rule 2: the unknown destination service of a namespace
SentinelService(a) ==
    a.workload = Unknown /\ a.app = Unknown /\ a.service = Unknown

WorkloadGraph == graphType \in {GraphTypeWorkload, GraphTypeService}

Calls == {built[i] : i \in 1..Len(built)}

\* the calls the identity rules 4 and 5 decide
Decided == {c \in Calls : ~SentinelSource(c.args) /\ ~SentinelService(c.args) /\ ~Panicked(c.id)}

\* C1: Id panics exactly when the inputs match neither sentinel rule and
\* either none of workload, app, service resolves, or the graph type is
\* workload or service and neither workload nor service resolves; every
\* other input yields an (id, nodeType) pair.
C1_IdFailsExactly ==
    \A c \in Calls :
        LET a == c.args
            fails == /\ ~SentinelSource(a)
                     /\ ~SentinelService(a)
                     /\ \/ ~Resolves(a.workload) /\ ~Resolves(a.app) /\ ~Resolves(a.service)
                        \/ WorkloadGraph /\ ~Resolves(a.workload) /\ ~Resolves(a.service)
        IN  /\ Panicked(c.id) <=> fails
            /\ ~fails => /\ DOMAIN c.id = {"panic", "id", "nodeType"}
                         /\ c.id.id # Empty
                         /\ c.id.nodeType \in {NodeTypeApp, NodeTypeService,
                                               NodeTypeUnknown, NodeTypeWorkload}

\* C1 witness: in an app graph a call whose fields all fail to resolve has
\* panicked, and in a workload graph a call with a resolved app has panicked
\* because neither workload nor service resolves.
C1_Witness ==
    /\ Len(built) = 2
    /\ Panicked(built[1].id) /\ Panicked(built[2].id)
    /\ ~SentinelSource(built[1].args) /\ ~SentinelService(built[1].args)
    /\ \/ /\ graphType = GraphTypeApp
          /\ ~Resolves(built[1].args.app) /\ built[1].args.workload = Empty
       \/ /\ graphType = GraphTypeWorkload
          /\ Resolves(built[2].args.app)

\* C2 as claimed: two nodes built by NewNode with the same ID under the same
\* graph type have the same NodeType, Namespace, Workload, App, Version and
\* Service.
C2_SameIdSameFields ==
    \A c \in Calls : \A d \in Calls :
        (~Panicked(c.node) /\ ~Panicked(d.node) /\ c.node.ID = d.node.ID)
            => /\ c.node.NodeType = d.node.NodeType
               /\ c.node.Namespace = d.node.Namespace
               /\ c.node.Workload = d.node.Workload
               /\ c.node.App = d.node.App
               /\ c.node.Version = d.node.Version
               /\ c.node.Service = d.node.Service

\* the nodes whose App and Version labels the trimming clears or derives
\* from the ID: service nodes, and app nodes outside a versionedApp graph
LabelsTrimmed(n) ==
    \/ n.NodeType = NodeTypeService
    \/ n.NodeType = NodeTypeApp /\ graphType # GraphTypeVersionedApp

\* C2 amended: two nodes built by NewNode with the same ID under the same
\* graph type have the same NodeType, Namespace, Workload and Service; their
\* App and Version are the same too when they are service nodes, or app
\* nodes of a graph that is not versionedApp.
C2_SameIdSameKeyFields ==
    \A c \in Calls : \A d \in Calls :
        (~Panicked(c.node) /\ ~Panicked(d.node) /\ c.node.ID = d.node.ID)
            => /\ c.node.NodeType = d.node.NodeType
               /\ c.node.Namespace = d.node.Namespace
               /\ c.node.Workload = d.node.Workload
               /\ c.node.Service = d.node.Service
               /\ LabelsTrimmed(c.node) =>
                      c.node.App = d.node.App /\ c.node.Version = d.node.Version

\* C2 witness: two calls with different supplied workload, app and version
\* have produced the same service node.
C2_Witness ==
    /\ Len(built) = 2
    /\ ~Panicked(built[1].node) /\ ~Panicked(built[2].node)
    /\ built[1].node.ID = built[2].node.ID
    /\ built[1].node.NodeType = NodeTypeService
    /\ built[1].args.workload # built[2].args.workload
    /\ built[1].args.app # built[2].args.app
    /\ built[1].args.version # built[2].args.version
    /\ built[1].node = built[2].node

\* C9: in a workload or service graph, a call that matches neither sentinel
\* rule and does not panic yields (wl_<ns>_<workload>, workload) whenever the
\* workload resolves, also when the service resolves, and
\* (svc_<ns>_<service>, service) only when the workload does not resolve;
\* two calls that differ only in app and version yield the same result.
C9_WorkloadGraphPrefersWorkload ==
    WorkloadGraph =>
        /\ \A c \in Decided :
              LET a == c.args
              IN  IF Resolves(a.workload)
                  THEN /\ c.id.id = <<"w", "l", "_">> \o a.namespace \o <<"_">> \o a.workload
                       /\ c.id.nodeType = NodeTypeWorkload
                  ELSE /\ Resolves(a.service)
                       /\ c.id.id = <<"s", "v", "c", "_">> \o a.namespace \o <<"_">> \o a.service
                       /\ c.id.nodeType = NodeTypeService
        /\ \A c \in Decided : \A d \in Decided :
              (/\ c.args.namespace = d.args.namespace
               /\ c.args.workload = d.args.workload
               /\ c.args.service = d.args.service) => c.id = d.id

\* C9 witness: in a service graph two calls with workload and service both
\* resolved, differing in app and version, have both returned the workload id.
C9_Witness ==
    /\ graphType = GraphTypeService
    /\ Len(built) = 2
    /\ built[1] \in Decided /\ built[2] \in Decided
    /\ Resolves(built[1].args.workload) /\ Resolves(built[1].args.service)
    /\ built[1].args.app # built[2].args.app
    /\ built[1].args.version # built[2].args.version
    /\ built[1].id = built[2].id
    /\ built[1].id.nodeType = NodeTypeWorkload

\* C10: in any other graph type, a call that matches neither sentinel rule
\* and does not panic yields type app when the app resolves, with id
\* app_<ns>_<app>, or vapp_<ns>_<workload> in a versionedApp graph; else
\* (wl_<ns>_<workload>, workload) when the workload resolves; else
\* (svc_<ns>_<service>, service).
C10_AppGraphPrefersApp ==
    ~WorkloadGraph =>
        \A c \in Decided :
            LET a == c.args
            IN  IF Resolves(a.app)
                THEN /\ c.id.nodeType = NodeTypeApp
                     /\ c.id.id = IF graphType = GraphTypeVersionedApp
                                  THEN <<"v", "a", "p", "p", "_">> \o a.namespace \o <<"_">> \o a.workload
                                  ELSE <<"a", "p", "p", "_">> \o a.namespace \o <<"_">> \o a.app
                ELSE IF Resolves(a.workload)
                THEN /\ c.id.nodeType = NodeTypeWorkload
                     /\ c.id.id = <<"w", "l", "_">> \o a.namespace \o <<"_">> \o a.workload
                ELSE /\ c.id.nodeType = NodeTypeService
                     /\ c.id.id = <<"s", "v", "c", "_">> \o a.namespace \o <<"_">> \o a.service

\* C10 witness: a versionedApp graph has keyed an app node by its workload,
\* and fallen back to the service for a call with neither app nor workload.
C10_Witness ==
    /\ graphType = GraphTypeVersionedApp
    /\ Len(built) = 2
    /\ built[1] \in Decided /\ built[2] \in Decided
    /\ Resolves(built[1].args.app) /\ Resolves(built[1].args.workload)
    /\ built[1].id.id = <<"v", "a", "p", "p", "_", "n", "1", "_", "w", "1">>
    /\ ~Resolves(built[2].args.app) /\ ~Resolves(built[2].args.workload)
    /\ built[2].id.nodeType = NodeTypeService
----------------------------------------------------------------------------
(* Properties of the options resolver *)

OptCalls == {resolved[i] : i \in 1..Len(resolved)}

\* the fixed order of the pipeline
FixedOrder ==
    <<"DeadNodeAppender", "ResponseTimeAppender", "SecurityPolicyAppender",
      "UnusedNodeAppender", "IstioAppender", "SidecarsCheckAppender">>

FullName(type) ==
    CASE type = "DeadNodeAppender" -> DeadNodeAppenderName
      [] type = "ResponseTimeAppender" -> ResponseTimeAppenderName
      [] type = "SecurityPolicyAppender" -> SecurityPolicyAppenderName
      [] type = "UnusedNodeAppender" -> UnusedNodeAppenderName
      [] type = "IstioAppender" -> IstioAppenderName
      [] type = "SidecarsCheckAppender" -> SidecarsCheckAppenderName

Alias(type) ==
    CASE type = "DeadNodeAppender" -> <<"d", "e", "a", "d", "_", "n", "o", "d", "e">>
      [] type = "ResponseTimeAppender" -> <<"r", "e", "s", "p", "o", "n", "s", "e", "_", "t", "i", "m", "e">>
      [] type = "SecurityPolicyAppender" -> <<"s", "e", "c", "u", "r", "i", "t", "y", "_", "p", "o", "l", "i", "c", "y">>
      [] type = "UnusedNodeAppender" -> <<"u", "n", "u", "s", "e", "d", "_", "n", "o", "d", "e">>
      [] type = "IstioAppender" -> <<"i", "s", "t", "i", "o">>
      [] type = "SidecarsCheckAppender" -> <<"s", "i", "d", "e", "c", "a", "r", "s", "_", "c", "h", "e", "c", "k">>

AppenderTypes(o) == [i \in 1..Len(o.Appenders) |-> o.Appenders[i].type]

\* C5: the resolved appender list is the fixed sequence dead-node,
\* response-time, security-policy, unused-node, istio, sidecars-check
\* restricted to the selected appenders: an appender is in it exactly when
\* the appenders parameter is absent, is the all-marker, or one of the names
\* it lists, lower-cased, holds the appender's full name or alias; the order
\* in which the parameter lists the names has no influence.
C5_AppendersInFixedOrder ==
    \A c \in OptCalls :
        ~Panicked(c.options) =>
            LET p == c.req.appenders
                listed == c.req.named
                Picked(type) ==
                    \/ ~p.present
                    \/ ToLower(p.value) = AppenderAll
                    \/ \E i \in 1..Len(listed) :
                          \/ Contains(ToLower(listed[i]), FullName(type))
                          \/ Contains(ToLower(listed[i]), Alias(type))
            IN  AppenderTypes(c.options) = SelectSeq(FixedOrder, Picked)

\* C5 witness: a parameter that lists sidecars_check before dead_node, in
\* mixed case, has resolved to dead-node first and sidecars-check second.
C5_Witness ==
    \E c \in OptCalls :
        /\ ~Panicked(c.options)
        /\ c.req.named = <<<<"S", "i", "d", "e", "c", "a", "r", "s", "_", "C", "h", "e", "c", "k">>, <<"d", "e", "a", "d", "_", "n", "o", "d", "e">>>>
        /\ AppenderTypes(c.options) = <<"DeadNodeAppender", "SidecarsCheckAppender">>

\* the all-namespaces marker is requested
FetchAll(r) ==
    \/ r.namespaces = NamespaceAll
    \/ r.namespaces = Empty /\ r.namespace = NamespaceAll

\* the namespaces a request names: the names of the namespaces list, or the
\* path variable when there is no list
RequestedNames(r) ==
    IF r.namespaces # Empty THEN {r.listed[i] : i \in 1..Len(r.listed)}
    ELSE IF r.namespace # Empty THEN {r.namespace}
    ELSE {}

\* C6: when a request that does not ask for all namespaces names a namespace
\* that is not accessible, NewOptions panics and returns no Options; Options
\* that are returned hold every namespace the request names.
C6_InaccessibleNamespaceFails ==
    \A c \in OptCalls :
        ~FetchAll(c.req) =>
            /\ (\E n \in RequestedNames(c.req) : n \notin env.accessible) => Panicked(c.options)
            /\ ~Panicked(c.options) => RequestedNames(c.req) \subseteq DOMAIN c.options.Namespaces

\* C6 witness: a list naming an accessible namespace first and an
\* inaccessible one second has panicked.
C6_Witness ==
    \E c \in OptCalls :
        /\ Len(c.req.listed) = 2
        /\ c.req.listed[1] \in env.accessible
        /\ c.req.listed[2] = <<"n", "2">>
        /\ <<"n", "2">> \notin env.accessible
        /\ ~env.lookupFails
        /\ Panicked(c.options)

Min(a, b) == IF a <= b THEN a ELSE b

\* C7: the Duration of every resolved namespace is
\* min(requested, referenceTime - creationTime) for that namespace's own
\* creation time, the reference time being the query timestamp, or the
\* current time when the query timestamp is zero.
C7_DurationClamped ==
    \A c \in OptCalls :
        ~Panicked(c.options) =>
            LET requested == IF c.req.duration.err THEN 10 ELSE c.req.duration.val
                given == IF c.req.queryTime.err THEN env.now ELSE c.req.queryTime.val
                referenceTime == IF given = 0 THEN env.now ELSE given
            IN  \A n \in DOMAIN c.options.Namespaces :
                    /\ c.options.Namespaces[n].Name = n
                    /\ c.options.Namespaces[n].Duration
                          = Min(requested, referenceTime - env.created[n])

\* C7 witness: requested 60 minutes at query time T + 10; the namespace
\* created at T has resolved to 10 minutes, the one without a creation time
\* to 60.
C7_Witness ==
    \E c \in OptCalls :
        /\ ~Panicked(c.options)
        /\ c.req.duration = [err |-> FALSE, val |-> 60]
        /\ c.req.queryTime = [err |-> FALSE, val |-> 110]
        /\ DOMAIN c.options.Namespaces = {<<"n", "1">>, <<"n", "2">>}
        /\ env.created[<<"n", "1">>] = 100
        /\ env.created[<<"n", "2">>] = ZeroTime
        /\ c.options.Namespaces[<<"n", "1">>].Duration = 10
        /\ c.options.Namespaces[<<"n", "2">>].Duration = 60

\* C8: when the all-namespaces marker is requested the resolved namespaces
\* are exactly the accessible ones without istio-system; istio-system is
\* resolved only when the request names it and it is accessible.
C8_AllExcludesIstioSystem ==
    \A c \in OptCalls :
        /\ (FetchAll(c.req) /\ ~env.lookupFails) =>
              /\ ~Panicked(c.options)
              /\ DOMAIN c.options.Namespaces = env.accessible \ {NamespaceIstioSystem}
        /\ (~Panicked(c.options) /\ NamespaceIstioSystem \in DOMAIN c.options.Namespaces) =>
              /\ NamespaceIstioSystem \in env.accessible
              /\ ~FetchAll(c.req)
              /\ NamespaceIstioSystem \in RequestedNames(c.req)

\* C8 witness: with n1 and istio-system accessible, a request for all
\* namespaces has resolved to n1 alone.
C8_Witness ==
    \E c \in OptCalls :
        /\ c.req.namespaces = NamespaceAll
        /\ env.accessible = {<<"n", "1">>, NamespaceIstioSystem}
        /\ ~Panicked(c.options)
        /\ DOMAIN c.options.Namespaces = {<<"n", "1">>}

----------------------------------------------------------------------------
(* Serializer properties *)

\* C3 as claimed: two NewConfig calls on the same TrafficMap with the same
\* VendorOptions return identical node and edge arrays, the same elements
\* in the same order, whatever the map iteration orders and whatever the
\* sort does with elements that compare equal.
C3_SerializeTwiceIdentical ==
    Len(docs) = 2 => docs[1].Elements = docs[2].Elements

\* the positions of the app-type nodes of the document d that are not
\* compound parents and have the namespace and app of the node m
AppMembers(d, m) ==
    {i \in 1..Len(d.Elements.Nodes) :
        /\ d.Elements.Nodes[i].NodeType = NodeTypeApp
        /\ d.Elements.Nodes[i].IsGroup = Empty
        /\ d.Elements.Nodes[i].Namespace = m.Namespace
        /\ d.Elements.Nodes[i].App = m.App}

\* the positions of the compound parents of the namespace and app of m
CompoundParents(d, m) ==
    {i \in 1..Len(d.Elements.Nodes) :
        /\ d.Elements.Nodes[i].Id = nodeHash(BoxKey(m))
        /\ d.Elements.Nodes[i].IsGroup = GroupByVersion}

\* the positions of the nodes whose Parent is the compound parent of m
Children(d, m) ==
    {i \in 1..Len(d.Elements.Nodes) : d.Elements.Nodes[i].Parent = nodeHash(BoxKey(m))}

\* the number of versions among the app-type nodes of the (namespace, app) of m
VersionCount(d, m) == Cardinality({d.Elements.Nodes[i].Version : i \in AppMembers(d, m)})

\* the number of app-type nodes of the (namespace, app) of m
MemberCount(d, m) == Cardinality(AppMembers(d, m))

\* the grouping rule with count[i] the size of the group of the node at
\* position i: one gives no compound parent and empty Parents, more gives
\* one compound parent with that many children
GroupedBy(d, count) ==
    \A i \in 1..Len(d.Elements.Nodes) :
        LET m == d.Elements.Nodes[i]
        IN  (m.NodeType = NodeTypeApp /\ m.IsGroup = Empty) =>
               IF count[i] = 1
               THEN /\ CompoundParents(d, m) = {}
                    /\ \A j \in AppMembers(d, m) : d.Elements.Nodes[j].Parent = Empty
               ELSE /\ Cardinality(CompoundParents(d, m)) = 1
                    /\ Cardinality(Children(d, m)) = count[i]

VersionCounts(d) == [i \in 1..Len(d.Elements.Nodes) |-> VersionCount(d, d.Elements.Nodes[i])]

MemberCounts(d) == [i \in 1..Len(d.Elements.Nodes) |-> MemberCount(d, d.Elements.Nodes[i])]

\* no node of the document is a compound parent
Ungrouped(d) == \A i \in 1..Len(d.Elements.Nodes) : d.Elements.Nodes[i].IsGroup = Empty

Grouping == graphType = GraphTypeVersionedApp /\ groupBy = GroupByVersion

----------------------------------------------------------------------------
(* Properties of the sentinel rules *)

\* C11: Id called with namespace, workload and app "unknown" and an empty
\* service returns the id unknown_source and the type unknown whatever the
\* version and the graph type, before any other rule (it does not panic
\* although nothing resolves), so all such calls give one node ID.
C11_UnknownSourceAlways ==
    \A c \in Calls :
        SentinelSource(c.args) =>
            /\ c.id = IdResult(IdUnknownSource, NodeTypeUnknown)
            /\ ~Panicked(c.node)
            /\ c.node.ID = IdUnknownSource
            /\ c.node.NodeType = NodeTypeUnknown
            /\ \A d \in Calls : SentinelSource(d.args) => d.node.ID = c.node.ID

\* C11 witness: in a workload graph two unknown-source calls with different
\* versions have both returned unknown_source.
C11_Witness ==
    /\ Len(built) = 2
    /\ graphType = GraphTypeWorkload
    /\ SentinelSource(built[1].args) /\ SentinelSource(built[2].args)
    /\ built[1].args.version = Unknown /\ built[2].args.version = <<"v", "1">>
    /\ built[1].id.id = IdUnknownSource /\ built[2].id.id = IdUnknownSource

\* C12: NewNode called with workload, app and service "unknown" never
\* panics and yields, for every namespace, version and graph type, a node
\* of type service with the ID svc_<namespace>_unknown, so two such calls
\* for one namespace yield one ID.
C12_UnknownServicePerNamespace ==
    \A c \in Calls :
        SentinelService(c.args) =>
            /\ ~Panicked(c.node)
            /\ c.node.ID = <<"s", "v", "c", "_">> \o c.args.namespace \o <<"_", "u", "n", "k", "n", "o", "w", "n">>
            /\ c.node.NodeType = NodeTypeService
            /\ \A d \in Calls :
                  (SentinelService(d.args) /\ d.args.namespace = c.args.namespace)
                      => d.node.ID = c.node.ID

\* C12 witness: in an app graph two unknown-service calls for the namespace
\* n1 with different versions have both built the node svc_n1_unknown.
C12_Witness ==
    /\ Len(built) = 2
    /\ SentinelService(built[1].args) /\ SentinelService(built[2].args)
    /\ graphType = GraphTypeApp
    /\ built[1].args.namespace = <<"n", "1">> /\ built[2].args.namespace = <<"n", "1">>
    /\ built[1].args.version # built[2].args.version
    /\ built[1].node.ID = <<"s", "v", "c", "_", "n", "1", "_", "u", "n", "k", "n", "o", "w", "n">> /\ built[2].node.ID = <<"s", "v", "c", "_", "n", "1", "_", "u", "n", "k", "n", "o", "w", "n">>
----------------------------------------------------------------------------
(* Properties of the trimming *)

\* C13: NewNodeExplicit trims whatever the caller supplies. A service node
\* has empty App, Workload and Version. A workload node has an empty
\* Service, and its App (Version) is empty exactly when the supplied value
\* is empty or "unknown", and is the supplied value otherwise. An app node
\* has an empty Service, and empty Workload and Version unless the graph
\* type is versionedApp, where both are the supplied values. ID, NodeType
\* and Namespace are stored as supplied; Edges and Metadata start empty.
C13_TrimmingTable ==
    \A c \in Calls :
        LET a == c.args
            n == c.node
        IN  /\ n.ID = a.id /\ n.NodeType = a.nodeType /\ n.Namespace = a.namespace
            /\ n.Edges = <<>> /\ DOMAIN n.Metadata = {}
            /\ a.nodeType = NodeTypeService =>
                  n.App = Empty /\ n.Workload = Empty /\ n.Version = Empty
            /\ a.nodeType = NodeTypeWorkload =>
                  /\ n.Service = Empty
                  /\ n.App = Empty <=> ~Resolves(a.app)
                  /\ n.App # Empty => n.App = a.app
                  /\ n.Version = Empty <=> ~Resolves(a.version)
                  /\ n.Version # Empty => n.Version = a.version
            /\ a.nodeType = NodeTypeApp =>
                  /\ n.Service = Empty
                  /\ IF graphType = GraphTypeVersionedApp
                     THEN n.Workload = a.workload /\ n.Version = a.version
                     ELSE n.Workload = Empty /\ n.Version = Empty

\* C13 witness: in a versionedApp graph an app node supplied with workload
\* w1, version "unknown" and service s1 has kept the workload and the
\* version and lost the service.
C13_Witness ==
    /\ Len(built) = 1
    /\ graphType = GraphTypeVersionedApp
    /\ built[1].args.nodeType = NodeTypeApp
    /\ built[1].args.workload = <<"w", "1">> /\ built[1].args.version = Unknown
    /\ built[1].args.service = <<"s", "1">>
    /\ built[1].node.Workload = <<"w", "1">> /\ built[1].node.Version = Unknown
    /\ built[1].node.Service = Empty
----------------------------------------------------------------------------
(* Properties of AddEdge *)

\* the AddEdge calls made with the node s as source, in call order
CallsFrom(s) == SelectSeq(built, LAMBDA c : c.source = s)

\* the edge list of every node holds one edge per call made with that node
\* as source, in call order, each with the call's source and dest, and each
\* call has returned the pointer to its edge
EdgesFollowCalls ==
    \A s \in DOMAIN heap :
        /\ Len(heap[s].Edges) = Len(CallsFrom(s))
        /\ \A i \in 1..Len(heap[s].Edges) :
              /\ heap[s].Edges[i].Source = s
              /\ heap[s].Edges[i].Dest = CallsFrom(s)[i].dest
              /\ CallsFrom(s)[i].e = [Source |-> s, Index |-> i]

\* what the AddEdge call of this step does: the returned edge is new, has
\* the call's source and dest and empty metadata; the other nodes, the
\* earlier edges of the source and the keys of the TrafficMap stay
AddEdgeStep ==
    LET c == built'[Len(built')]
    IN  /\ c.e.Index = Len(heap[c.source].Edges) + 1
        /\ heap'[c.e.Source].Edges[c.e.Index] =
              [Source |-> c.source, Dest |-> c.dest, Metadata |-> EmptyMetadata]
        /\ SubSeq(heap'[c.source].Edges, 1, Len(heap[c.source].Edges)) = heap[c.source].Edges
        /\ \A p \in DOMAIN heap : p # c.source => heap'[p] = heap[p]
        /\ DOMAIN heap' = DOMAIN heap
        /\ trafficMap' = trafficMap

\* C14: after any sequence of AddEdge calls each node's edge list holds
\* exactly one edge per call made with that node as source, in call order
\* and without deduplication; each call returns the edge it appended, with
\* the source and the dest of the call and empty metadata, and leaves the
\* edge lists of the other nodes, the earlier edges of the source and the
\* key set of the TrafficMap unchanged.
C14_AddEdgeAppends ==
    [][EdgesFollowCalls' /\ (Len(built') > Len(built) => AddEdgeStep)]_vars

\* C14 witness: two AddEdge calls with the same source and the same dest
\* have left two edges to that dest in the list of the source.
C14_Witness ==
    /\ Len(built) = 2
    /\ built[1].source = built[2].source /\ built[1].dest = built[2].dest
    /\ Len(heap[built[1].source].Edges) = 2
    /\ heap[built[1].source].Edges[1].Dest = built[1].dest
    /\ heap[built[1].source].Edges[2].Dest = built[1].dest
----------------------------------------------------------------------------
(* Properties of the order of the document *)

\* s is not after t in Go's order of strings
StrLeq(s, t) == s = t \/ StrLess(s, t)

\* the node a may stand before the node b: namespace ascending, then
\* isGroup descending, then app, version, service, workload ascending
NodesInOrder(a, b) ==
    \/ StrLess(a.Namespace, b.Namespace)
    \/ /\ a.Namespace = b.Namespace
       /\ \/ StrLess(b.IsGroup, a.IsGroup)
          \/ /\ a.IsGroup = b.IsGroup
             /\ \/ StrLess(a.App, b.App)
                \/ /\ a.App = b.App
                   /\ \/ StrLess(a.Version, b.Version)
                      \/ /\ a.Version = b.Version
                         /\ \/ StrLess(a.Service, b.Service)
                            \/ /\ a.Service = b.Service
                               /\ StrLeq(a.Workload, b.Workload)

\* the edge a may stand before the edge b: source, then target, on the
\* hashed identifiers
EdgesInOrder(a, b) ==
    \/ HashLess(a.Source, b.Source)
    \/ a.Source = b.Source /\ (a.Target = b.Target \/ HashLess(a.Target, b.Target))

\* C15: in every document of NewConfig the nodes are ordered by namespace
\* ascending, isGroup descending, app, version, service, workload, and the
\* edges by source and target on the hashed identifiers; so every compound
\* parent stands at a smaller index than every node whose Parent is its id.
C15_DocumentOrdered ==
    \A n \in 1..Len(docs) :
        LET N == docs[n].Elements.Nodes
            E == docs[n].Elements.Edges
        IN  /\ \A i \in 1..Len(N) : \A j \in 1..Len(N) : i < j => NodesInOrder(N[i], N[j])
            /\ \A i \in 1..Len(E) : \A j \in 1..Len(E) : i < j => EdgesInOrder(E[i], E[j])
            /\ \A i \in 1..Len(N) : \A j \in 1..Len(N) :
                  (N[i].IsGroup # Empty /\ N[j].Parent = N[i].Id) => i < j

\* C15 witness: a document whose first node is the compound parent of the
\* two nodes after it, of the versions v1 and v2 in this order, and which
\* has an edge.
C15_Witness ==
    \E n \in 1..Len(docs) :
        LET N == docs[n].Elements.Nodes
        IN  /\ Len(N) = 3
            /\ N[1].IsGroup = GroupByVersion
            /\ N[2].Parent = N[1].Id /\ N[3].Parent = N[1].Id
            /\ N[2].Version = <<"v", "1">> /\ N[3].Version = <<"v", "2">>
            /\ Len(docs[n].Elements.Edges) > 0
----------------------------------------------------------------------------
(* Properties of the node telemetry *)

\* the node of the document d with the id of the node n
DocNode(d, n) ==
    LET N == d.Elements.Nodes
    IN  N[CHOOSE i \in 1..Len(N) : N[i].Id = nodeHash(n.ID)]

\* the metadata value of the key k is present and above zero
Positive(md, k) == k \in DOMAIN md /\ md[k] > 0

\* C16 as claimed: each rate field of a node (rate, rate3XX, rate4XX,
\* rate5XX, rateOut, rateTcpSent, rateTcpSentOut) is emitted exactly when
\* the node's own metadata key (rate, rate3xx, rate4xx, rate5xx, rateOut,
\* tcpSentRate, tcpSentRateOut) is present and above zero, whatever the
\* other keys hold.
C16_RateEmittedOnOwnValue ==
    \A n \in 1..Len(docs) :
        LET nd == DocNode(docs[n], TelSource)
            md == heap[TelSource.ID].Metadata
        IN  /\ nd.Rate # Empty <=> Positive(md, "rate")
            /\ nd.Rate3xx # Empty <=> Positive(md, "rate3xx")
            /\ nd.Rate4xx # Empty <=> Positive(md, "rate4xx")
            /\ nd.Rate5xx # Empty <=> Positive(md, "rate5xx")
            /\ nd.RateOut # Empty <=> Positive(md, "rateOut")
            /\ nd.RateTcpSent # Empty <=> Positive(md, "tcpSentRate")
            /\ nd.RateTcpSentOut # Empty <=> Positive(md, "tcpSentRateOut")

\* C16 amended: rate, rateOut, rateTcpSent and rateTcpSentOut of a node are
\* emitted exactly when the node's own metadata key is present and above
\* zero; rate3XX, rate4XX and rate5XX are emitted exactly when the own key
\* is present and above zero and the key rate is present and above zero.
C16_RateEmittedUnderRate ==
    \A n \in 1..Len(docs) :
        LET nd == DocNode(docs[n], TelSource)
            md == heap[TelSource.ID].Metadata
        IN  /\ nd.Rate # Empty <=> Positive(md, "rate")
            /\ nd.Rate3xx # Empty <=> (Positive(md, "rate3xx") /\ Positive(md, "rate"))
            /\ nd.Rate4xx # Empty <=> (Positive(md, "rate4xx") /\ Positive(md, "rate"))
            /\ nd.Rate5xx # Empty <=> (Positive(md, "rate5xx") /\ Positive(md, "rate"))
            /\ nd.RateOut # Empty <=> Positive(md, "rateOut")
            /\ nd.RateTcpSent # Empty <=> Positive(md, "tcpSentRate")
            /\ nd.RateTcpSentOut # Empty <=> Positive(md, "tcpSentRateOut")

\* C16 witness: a node with rate 1.50, rate4xx 1.50, rate5xx 0 and no other
\* rate has been serialized with rate and rate4XX "1.50" and nothing else.
C16_Witness ==
    /\ Len(docs) = 1
    /\ heap[TelSource.ID].Metadata = [k \in {"rate", "rate4xx", "rate5xx"} |->
                                         IF k = "rate5xx" THEN 0 ELSE 150]
    /\ DocNode(docs[1], TelSource).Rate = <<"1", ".", "5", "0">>
    /\ DocNode(docs[1], TelSource).Rate4xx = <<"1", ".", "5", "0">>
    /\ DocNode(docs[1], TelSource).Rate5xx = Empty
    /\ DocNode(docs[1], TelSource).Rate3xx = Empty
    /\ DocNode(docs[1], TelSource).RateOut = Empty
----------------------------------------------------------------------------
(* Properties of the edge telemetry *)

\* the edge of the two-node graph in the document d, its metadata and the
\* metadata of its source
DocEdge(d) == d.Elements.Edges[1]

EdgeMd == heap[TelSource.ID].Edges[1].Metadata

SourceMd == heap[TelSource.ID].Metadata

\* the value of the key k, 0 when absent
Value(md, k) == IF k \in DOMAIN md THEN md[k] ELSE 0

\* C17: for an edge with rate above zero, percentErr is
\* (rate4xx + rate5xx) / rate * 100 with absent rates counted as 0, emitted
\* with two decimals exactly when above zero (rate 10, rate4xx 1, rate5xx 1
\* give "20.00"); for an edge with no rate or a rate not above zero none of
\* rate, rate3XX, rate4XX, rate5XX, percentErr, percentRate, responseTime
\* is emitted.
C17_PercentErr ==
    \A n \in 1..Len(docs) :
        LET ed == DocEdge(docs[n])
            rate == Value(EdgeMd, "rate")
            err == Value(EdgeMd, "rate4xx") + Value(EdgeMd, "rate5xx")
        IN  /\ rate > 0 =>
                  /\ ed.PercentErr # Empty <=> err > 0
                  /\ err > 0 => ed.PercentErr = Sprintf2f(Percent(err, rate))
                  /\ (rate = 1000 /\ Value(EdgeMd, "rate4xx") = 100 /\ Value(EdgeMd, "rate5xx") = 100)
                        => ed.PercentErr = <<"2", "0", ".", "0", "0">>
                  /\ (rate = 1000 /\ err = 100) => ed.PercentErr = <<"1", "0", ".", "0", "0">>
                  /\ (rate = 100 /\ err = 100) => ed.PercentErr = <<"1", "0", "0", ".", "0", "0">>
            /\ rate <= 0 =>
                  /\ ed.Rate = Empty /\ ed.Rate3xx = Empty /\ ed.Rate4xx = Empty
                  /\ ed.Rate5xx = Empty /\ ed.PercentErr = Empty
                  /\ ed.PercentRate = Empty /\ ed.ResponseTime = Empty

\* C17 witness: an edge with rate 10.00, rate4xx 1.00 and rate5xx 1.00 has
\* been serialized with percentErr "20.00".
C17_Witness ==
    /\ Len(docs) = 1
    /\ EdgeMd = [k \in {"rate", "rate4xx", "rate5xx"} |-> IF k = "rate" THEN 1000 ELSE 100]
    /\ DocEdge(docs[1]).Rate = <<"1", "0", ".", "0", "0">>
    /\ DocEdge(docs[1]).PercentErr = <<"2", "0", ".", "0", "0">>

\* C18: for an edge with rate above zero, percentRate, the rate as a
\* percentage of the rateOut of the source node, is emitted exactly when it
\* is below 100; it is absent when the rate equals the rateOut, and when
\* the source has no rateOut or rateOut 0 the document is still produced,
\* without percentRate.
C18_PercentRate ==
    \A n \in 1..Len(docs) :
        LET ed == DocEdge(docs[n])
            rate == Value(EdgeMd, "rate")
            rateOut == Value(SourceMd, "rateOut")
        IN  rate > 0 =>
               /\ rateOut > 0 =>
                     /\ ed.PercentRate # Empty <=> rate * 100 < 100 * rateOut
                     /\ ed.PercentRate # Empty => ed.PercentRate = Sprintf2f(Percent(rate, rateOut))
               /\ rate = rateOut => ed.PercentRate = Empty
               /\ rateOut = 0 => ed.PercentRate = Empty
               /\ (rate = 1000 /\ rateOut = 2000) => ed.PercentRate = <<"5", "0", ".", "0", "0">>

\* C18 witness: an edge with rate 10.00 from a source with rateOut 10.00
\* has been serialized without percentRate, and serialized again.
C18_Witness ==
    /\ Len(docs) = 2
    /\ Value(EdgeMd, "rate") = 1000
    /\ "rateOut" \in DOMAIN SourceMd /\ SourceMd["rateOut"] = 1000
    /\ DocEdge(docs[1]).Rate = <<"1", "0", ".", "0", "0">>
    /\ DocEdge(docs[1]).PercentRate = Empty

----------------------------------------------------------------------------
(* Properties of concurrent requests *)

\* the traffic map and the heap after the first k steps of the plan, taken
\* by a request that is served alone
RECURSIVE AloneBuild(_, _, _)
AloneBuild(plan, k, gt) ==
    IF k = 0 THEN [trafficMap |-> NewTrafficMap, heap |-> <<>>]
    ELSE LET before == AloneBuild(plan, k - 1, gt)
         IN  PlanStep(before.trafficMap, before.heap, plan[k], gt)

\* what a request served alone has built when it is where the goroutine w is
Alone(w) == AloneBuild(workers[w].plan, workers[w].at, workers[w].options.GraphType)

\* the traffic map tm read through its pointers: the Node of every key, the
\* ends of its edges named by the ID of the Node they point to
View(tm, nodes) ==
    [id \in DOMAIN tm |->
        LET n == nodes[tm[id]]
        IN  [n EXCEPT !.Edges = [k \in 1..Len(n.Edges) |->
                                    [Source |-> nodes[n.Edges[k].Source].ID,
                                     Dest |-> nodes[n.Edges[k].Dest].ID,
                                     Metadata |-> n.Edges[k].Metadata]]]]

\* the addresses the traffic map of the goroutine w points to
Cells(w) == {workers[w].trafficMap[id] : id \in DOMAIN workers[w].trafficMap}

\* C19: in every interleaving of two concurrent graph requests, no request
\* shares a cell of its traffic map with the other, and each request has the
\* Options, the TrafficMap and the document it has when it is served alone.
C19_RequestsIsolated ==
    \A w \in Workers :
        /\ \A v \in Workers \ {w} : Cells(w) \cap Cells(v) = {}
        /\ workers[w].pc # "start" => workers[w].options = NewOptions(workers[w].req)
        /\ workers[w].pc \in {"build", "done"} =>
              View(workers[w].trafficMap, heap) = View(Alone(w).trafficMap, Alone(w).heap)
        /\ workers[w].pc = "done" =>
              workers[w].doc \in NewConfig(Alone(w).trafficMap, Alone(w).heap, workers[w].options)

\* two requests for the same graph have finished, their steps interleaved:
\* an address of the second lies between two addresses of the first; both
\* maps hold the same IDs and each has its edges
C19_Witness ==
    /\ workers # <<>>
    /\ \A w \in Workers : workers[w].pc = "done" /\ workers[w].doc.Elements.Edges # <<>>
    /\ workers[1].req = workers[2].req
    /\ DOMAIN workers[1].trafficMap = DOMAIN workers[2].trafficMap
    /\ \E p, q \in Cells(1) : \E x \in Cells(2) : p < x /\ x < q

----------------------------------------------------------------------------
(* Properties of the metrics parameters *)

\* the rate functions the handler supports
SupportedRateFuncs == {<<"r", "a", "t", "e">>, <<"i", "r", "a", "t", "e">>}

\* C20: when the first rateFunc value of a request is neither "rate" nor
\* "irate", extractMetricsQueryParams returns the bad-request error of
\* rateFunc and q.RateFunc is the default; when it is "rate" or "irate",
\* q.RateFunc is that value.
C20_RateFuncNeverGuessed ==
    \A i \in 1..Len(built) :
        LET rateFuncs == Param(built[i].args, "rateFunc")
            out == built[i].out
        IN  rateFuncs # <<>> =>
               IF rateFuncs[1] \notin SupportedRateFuncs
               THEN /\ ~out.panic
                    /\ out.err = BadRequest("rateFunc")
                    /\ out.q.RateFunc = built[i].args.defaultRateFunc
               ELSE out.q.RateFunc = rateFuncs[1]

\* a request whose first rate function is unsupported and whose second is
\* supported has been refused, the query keeping a default that is neither
C20_Witness ==
    /\ Len(built) = 1
    /\ Param(built[1].args, "rateFunc") = <<<<"s", "u", "m">>, <<"r", "a", "t", "e">>>>
    /\ built[1].args.defaultRateFunc = <<"i", "r", "a", "t", "e">>
    /\ Param(built[1].args, "rateInterval") = <<<<"5", "h">>>>
    /\ built[1].out.err.nil = FALSE
    /\ built[1].out.err.badRequest
    /\ built[1].out.q.RateFunc = <<"i", "r", "a", "t", "e">>
    /\ built[1].out.q.RateInterval = <<"5", "h">>

\* the creation timestamp of the namespace is the zero time
ZeroCreation(r) == ~r.k8s.err /\ r.k8s.created = 0 - 2000000000

\* the parameter is given and its first value parses
Parses(r, name) == Param(r, name) # <<>> /\ ~Param(r, name)[1].err

\* queryTime, duration and step parse, the step is above zero and the
\* duration is not negative
TimesGiven(r) ==
    /\ Parses(r, "queryTime") /\ Parses(r, "duration") /\ Parses(r, "step")
    /\ Param(r, "step")[1].val > 0
    /\ Param(r, "duration")[1].val >= 0

\* every other parameter that can fail is absent or valid
OthersValid(r) ==
    /\ Param(r, "rateInterval") # <<>> => ~ParseDuration(Param(r, "rateInterval")[1]).err
    /\ Param(r, "rateFunc") # <<>> => Param(r, "rateFunc")[1] \in SupportedRateFuncs
    /\ \A i \in 1..Len(Param(r, "quantiles[]")) :
          /\ ~Param(r, "quantiles[]")[i].err
          /\ Param(r, "quantiles[]")[i].val \in 0..100
    /\ Param(r, "avg") # <<>> => ~Param(r, "avg")[1].err

\* the query the times of the request ask for: from the query time less
\* the duration, rounded down to a multiple of the step, to the query time
TimesAsAsked(r, out) ==
    LET end == Param(r, "queryTime")[1].val
        step == Param(r, "step")[1].val
        start == end - Param(r, "duration")[1].val
    IN  /\ ~out.panic
        /\ out.err = Nil
        /\ out.q.End = end
        /\ out.q.Step = step
        /\ out.q.Start = (start \div step) * step
        /\ Param(r, "rateInterval") # <<>> => out.q.RateInterval = Param(r, "rateInterval")[1]
        /\ Param(r, "rateFunc") # <<>> => out.q.RateFunc = Param(r, "rateFunc")[1]

\* C21 as stated: for a namespace with the zero creation timestamp and
\* parseable queryTime, duration and step with step > 0 and duration >= 0,
\* extractMetricsQueryParams succeeds with q.End the query time, q.Step the
\* step and q.Start = q.End - duration rounded down to a multiple of the
\* step, with the supplied rateInterval and rateFunc.
C21_TimesAsAsked ==
    \A i \in 1..Len(built) :
        ZeroCreation(built[i].args) /\ TimesGiven(built[i].args) =>
            TimesAsAsked(built[i].args, built[i].out)

\* C21: the same, for requests whose other parameters are absent or valid
\* and whose start, the query time less the duration, is not before the
\* epoch.
C21_TimesAsAskedOfValidRequests ==
    \A i \in 1..Len(built) :
        /\ ZeroCreation(built[i].args) /\ TimesGiven(built[i].args)
        /\ OthersValid(built[i].args)
        /\ Param(built[i].args, "queryTime")[1].val >= Param(built[i].args, "duration")[1].val
        => TimesAsAsked(built[i].args, built[i].out)

\* the request of the handler's test, in small: an interval of 5h, irate,
\* step 7, the query time 90000, the duration 1000 have given a query from
\* 88998 to 90000
C21_Witness ==
    /\ Len(built) = 1
    /\ ZeroCreation(built[1].args)
    /\ Param(built[1].args, "rateInterval") = <<<<"5", "h">>>>
    /\ Param(built[1].args, "rateFunc") = <<<<"i", "r", "a", "t", "e">>>>
    /\ built[1].args.defaultRateFunc = <<"r", "a", "t", "e">>
    /\ Param(built[1].args, "quantiles[]") # <<>>
    /\ built[1].out.err = Nil
    /\ built[1].out.q.End = 90000
    /\ built[1].out.q.Start = 88998
    /\ built[1].out.q.Step = 7
    /\ built[1].out.q.RateFunc = <<"i", "r", "a", "t", "e">>

----------------------------------------------------------------------------
(* Properties of the edges of a document *)

\* the ids of the nodes of the document d
NodeIds(d) == {d.Elements.Nodes[i].Id : i \in 1..Len(d.Elements.Nodes)}

\* C22: every edge of a document NewConfig returns has a source and a
\* target that are ids of nodes of the document, also when a stage has
\* removed a node from the traffic map.
C22_NoDanglingEdge ==
    \A n \in 1..Len(docs) :
        \A i \in 1..Len(docs[n].Elements.Edges) :
            /\ docs[n].Elements.Edges[i].Source \in NodeIds(docs[n])
            /\ docs[n].Elements.Edges[i].Target \in NodeIds(docs[n])

----------------------------------------------------------------------------
(* Properties of the versionedApp identifiers *)

\* the id has the form vapp_<ns>_<workload>
IsVapp(id) == Len(id) >= 5 /\ SubSeq(id, 1, 5) = <<"v", "a", "p", "p", "_">>

\* C23: whenever Id returns an id of the form vapp_<ns>_<workload>, the
\* workload resolves; and two inputs of a versionedApp graph in one
\* namespace with different resolved apps and no resolved workload never
\* receive the same id.
C23_VappWorkloadResolves ==
    /\ \A c \in Calls :
          ~Panicked(c.id) /\ IsVapp(c.id.id) => WorkloadOk(c.args.workload)
    /\ \A c, d \in Calls :
          /\ graphType = GraphTypeVersionedApp
          /\ ~Panicked(c.id) /\ ~Panicked(d.id)
          /\ c.args.namespace = d.args.namespace
          /\ AppOk(c.args.app) /\ AppOk(d.args.app) /\ c.args.app # d.args.app
          /\ ~WorkloadOk(c.args.workload) /\ ~WorkloadOk(d.args.workload)
          => c.id.id # d.id.id

----------------------------------------------------------------------------
(* Properties of the resolved durations *)

\* C24: for every requested duration >= 0, every creation time and every
\* query timestamp, also one before the creation of the namespace, the
\* Duration of each resolved NamespaceInfo is between 0 and the requested
\* duration; it is never negative.
C24_DurationInRange ==
    \A c \in OptCalls :
        ~Panicked(c.options) /\ c.options.Duration >= 0 =>
            \A n \in DOMAIN c.options.Namespaces :
                /\ c.options.Namespaces[n].Duration >= 0
                /\ c.options.Namespaces[n].Duration <= c.options.Duration

----------------------------------------------------------------------------
(* Properties of the bounds of a metrics query *)

\* the earliest start the life of the namespace allows the query of the
\* request r that ends at end: the creation time plus the length of the
\* rate interval, the interval cut to begin at the creation
AllowedStart(r, end) ==
    LET rateInterval == IF Param(r, "rateInterval") # <<>> THEN Param(r, "rateInterval")[1]
                        ELSE <<"1", "m">>
        start == GetStartTimeForRateInterval(end, rateInterval).val
        intervalStartTime == IF start < r.k8s.created THEN r.k8s.created ELSE start
    IN  r.k8s.created + (end - intervalStartTime)

\* C25: whenever extractMetricsQueryParams returns without error, the final
\* q.Start, after the rounding to a multiple of the step, is not earlier
\* than the creation of the namespace plus the length of the rate interval.
C25_StartAfterCreation ==
    \A i \in 1..Len(built) :
        ~built[i].out.panic /\ built[i].out.err = Nil =>
            built[i].out.q.Start >= AllowedStart(built[i].args, built[i].out.q.End)

----------------------------------------------------------------------------
(* Properties of the termination of the metrics parameters *)

\* every parameter of r that a strconv parser reads parses
AllParse(r) ==
    \A name \in {"queryTime", "duration", "step", "quantiles[]", "avg"} :
        \A i \in 1..Len(Param(r, name)) : ~Param(r, name)[i].err

\* C26: for every combination of parameter values that parse, a step of 0
\* and a negative step or duration included, extractMetricsQueryParams
\* returns nil or an error and does not panic; when it returns nil, q.Start
\* is a multiple of the step.
C26_NeverFailsFatally ==
    \A i \in 1..Len(built) :
        AllParse(built[i].args) =>
            /\ ~built[i].out.panic
            /\ built[i].out.err = Nil =>
                  /\ built[i].out.q.Step # 0
                  /\ GoDiv(built[i].out.q.Start, built[i].out.q.Step) * built[i].out.q.Step
                        = built[i].out.q.Start

====
